---- MODULE Spec2Model ----
(***************************************************************************)
(* Follow-up queueing, restart handoff and interactive session routing of  *)
(* the openclaw gateway.                                                   *)
(*                                                                         *)
(* Texts are sequences of one-character strings, so that trim(),           *)
(* toLowerCase() and slice() are computed.  An optional value (a field     *)
(* that may be undefined, a function that may return null) is the empty    *)
(* tuple or a one-element tuple.                                           *)
(***************************************************************************)
EXTENDS Integers, Sequences, FiniteSets, TLC

VARIABLES
  queues,       \* FOLLOWUP_QUEUES: key -> optional FollowupQueue
  settingsOf,   \* the configured QueueSettings of each key
  queueOrder,   \* insertion order of the keys of FOLLOWUP_QUEUES (Map order)
  now,          \* Date.now(), in ms
  ret,          \* the last call: its arguments, what it read and what it returned
  enqSeq,       \* number of FollowupRuns constructed so far (their enqueuedAt)
  handoffFile,  \* restart-handoff.json: optional [parsable, json]
  phase,        \* gateway process: "running", "stopping", "down", "replaying"
  replay,       \* replayHandoffQueues in progress: [data, qi, ii]
  hist,         \* history of saves, loads and agent submissions (observation only)
  pendingAppends, \* inbox blocks handed to appendFile and not yet written
  inbox,        \* OPENCLAW_INBOX.md per workspace directory: the blocks appended
  store,        \* session-state.json: chatId -> optional SessionEntry
  tmuxLive,     \* names of the tmux sessions that exist
  inflight,     \* chatId -> optional sendToTmux call waiting for its reply
  detached,     \* chatId -> how its entry was last removed (observation only)
  ACTIVE_CLI_RUNS, \* sessionId -> optional CliRunHandle
  cliRuns,      \* each CLI run: "idle", "registered" or "done" (observation only)
  files         \* the files of the secrets migration: [at, backups]

vars == <<queues, settingsOf, queueOrder, now, ret, enqSeq, handoffFile, phase, replay, hist,
          pendingAppends, inbox, store, tmuxLive, inflight, detached,
          ACTIVE_CLI_RUNS, cliRuns, files>>

queueVars   == <<queues, settingsOf, queueOrder, pendingAppends, inbox>>
handoffVars == <<handoffFile, phase, replay, hist>>
proxyVars   == <<store, tmuxLive, inflight, detached>>
cliVars     == <<ACTIVE_CLI_RUNS, cliRuns, files>>

----------------------------------------------------------------------------
(* Optional values and texts *)

Undef == << >>
Some(x) == << x >>
IsDef(o) == o # Undef
Val(o) == o[1]

WhiteSpace == {" ", "\n"}

RECURSIVE TrimStart(_)
TrimStart(s) ==
  IF s = << >> THEN s
  ELSE IF Head(s) \in WhiteSpace THEN TrimStart(Tail(s)) ELSE s

RECURSIVE TrimEnd(_)
TrimEnd(s) ==
  IF s = << >> THEN s
  ELSE IF s[Len(s)] \in WhiteSpace THEN TrimEnd(SubSeq(s, 1, Len(s) - 1)) ELSE s

\* String.prototype.trim
Trim(s) == TrimEnd(TrimStart(s))

\* x?.trim()
OptTrim(o) == IF IsDef(o) THEN Some(Trim(Val(o))) ELSE Undef

\* truthiness of a string | undefined
Truthy(o) == IsDef(o) /\ Val(o) # << >>

\* s.slice(0, n)
SliceTo(s, n) == SubSeq(s, 1, IF Len(s) < n THEN Len(s) ELSE n)

\* s.slice(-n)
SliceLast(s, n) == IF Len(s) <= n THEN s ELSE SubSeq(s, Len(s) - n + 1, Len(s))

----------------------------------------------------------------------------
(* Bounds *)

MaxCap == 2        \* largest configured queue capacity
MaxTicksQ == 1     \* clock ticks while only enqueueing
MaxTicks == 3      \* clock ticks across shutdown and restart
MaxEnq == 2        \* FollowupRuns constructed over one behaviour of the handoff
MaxStartups == 2   \* startups of the gateway over one behaviour of the handoff
MaxInbox == 2      \* inbox blocks written or in flight
MaxLines == 5  \* lines of a capture given to extractNewContent
MaxBackups == 2  \* backups taken by secrets migrations
MaxLate == 1       \* seconds by which a timer of sendToTmux fires late

----------------------------------------------------------------------------
(* Deduplicator and Enqueue Orchestrator: enqueue.ts *)

DedupeModes == {"message-id", "prompt", "none"}

HasSameRoutingIgnoringTo(item, run) ==
  /\ item.originatingChannel = run.originatingChannel
  /\ item.originatingAccountId = run.originatingAccountId
  /\ item.originatingThreadId = run.originatingThreadId

HasSameRouting(item, run) ==
  /\ item.originatingChannel = run.originatingChannel
  /\ item.originatingTo = run.originatingTo
  /\ item.originatingAccountId = run.originatingAccountId
  /\ item.originatingThreadId = run.originatingThreadId

IsRunAlreadyQueuedUntrimmed(run, items, allowPromptFallback) ==
  IF Truthy(OptTrim(run.messageId))
  THEN \E i \in 1..Len(items) :
         items[i].messageId = run.messageId /\ HasSameRouting(items[i], run)
  ELSE IF ~allowPromptFallback THEN FALSE
  ELSE \E i \in 1..Len(items) :
         items[i].prompt = run.prompt /\ HasSameRouting(items[i], run)

IsRunAlreadyQueuedAlwaysFallback(run, items, allowPromptFallback) ==
  IF Truthy(OptTrim(run.messageId))
  THEN \E i \in 1..Len(items) :
         OptTrim(items[i].messageId) = OptTrim(run.messageId) /\ HasSameRouting(items[i], run)
  ELSE \E i \in 1..Len(items) :
         items[i].prompt = run.prompt /\ HasSameRouting(items[i], run)

IsRunAlreadyQueuedTrimmedPrompt(run, items, allowPromptFallback) ==
  IF Truthy(OptTrim(run.messageId))
  THEN \E i \in 1..Len(items) :
         OptTrim(items[i].messageId) = OptTrim(run.messageId) /\ HasSameRouting(items[i], run)
  ELSE IF ~allowPromptFallback THEN FALSE
  ELSE \E i \in 1..Len(items) :
         Trim(items[i].prompt) = Trim(run.prompt) /\ HasSameRouting(items[i], run)

IsRunAlreadyQueuedHeadOnly(run, items, allowPromptFallback) ==
  LET messageId == OptTrim(run.messageId)
  IN IF Truthy(messageId)
     THEN \E i \in 1..(IF items = << >> THEN 0 ELSE 1) :
            OptTrim(items[i].messageId) = messageId /\ HasSameRouting(items[i], run)
     ELSE IF ~allowPromptFallback THEN FALSE
     ELSE \E i \in 1..(IF items = << >> THEN 0 ELSE 1) :
            items[i].prompt = run.prompt /\ HasSameRouting(items[i], run)

IsRunAlreadyQueued(run, items, allowPromptFallback) ==
  LET messageId == OptTrim(run.messageId)
  IN IF Truthy(messageId)
     THEN \E i \in 1..Len(items) :
            OptTrim(items[i].messageId) = messageId /\ HasSameRouting(items[i], run)
     ELSE IF ~allowPromptFallback THEN FALSE
     ELSE \E i \in 1..Len(items) :
            items[i].prompt = run.prompt /\ HasSameRouting(items[i], run)

DedupeGivenAlways(dedupeMode) == TRUE

\* const dedupe = dedupeMode === "none" ? undefined : ...: whether a dedupe
\* function is passed to shouldSkipQueueItem
DedupeGiven(dedupeMode) == dedupeMode # "none"

\* queue-helpers: the item is skipped when a dedupe function is given and finds it
ShouldSkipQueueItem(run, items, dedupeMode) ==
  IF ~DedupeGiven(dedupeMode) THEN FALSE
  ELSE IsRunAlreadyQueued(run, items, dedupeMode = "prompt")

\* summarize: (item) => item.summaryLine?.trim() || item.prompt.trim()
Summarize(item) ==
  IF Truthy(OptTrim(item.summaryLine)) THEN Trim(Val(item.summaryLine))
  ELSE Trim(item.prompt)

\* Drop Policy Evaluator: below capacity nothing is dropped; at capacity the
\* oldest entry is dropped and its summary produced by the summarize callback
\* that enqueueFollowupRun passes (Summarize); the item is admitted.
ApplyQueueDropPolicy(queue) ==
  IF Len(queue.items) < queue.cap
  THEN [admit |-> TRUE, queue |-> queue, dropped |-> << >>, summaries |-> << >>]
  ELSE [admit |-> TRUE,
        queue |-> [queue EXCEPT !.items = Tail(@)],
        dropped |-> << Head(queue.items) >>,
        summaries |-> << Summarize(Head(queue.items)) >>]

NewQueue(settings) ==
  [items |-> << >>, draining |-> FALSE, lastEnqueuedAt |-> 0, lastRun |-> Undef,
   mode |-> settings.mode, cap |-> settings.cap]

\* state.ts getExistingFollowupQueue / getFollowupQueue
GetExistingFollowupQueue(key) == queues[key]

GetFollowupQueue(key, settings) ==
  IF IsDef(queues[key]) THEN Val(queues[key]) ELSE NewQueue(settings)

PushFront(items, run) == << run >> \o items

\* queue.items.push(run)
Push(items, run) == Append(items, run)

PushKeepingDropped(queue, policy, run) == [policy.queue EXCEPT !.items = Push(queue.items, run)]

\* the queue after applyQueueDropPolicy has mutated it and the run is pushed
PushAdmitted(queue, policy, run) == [policy.queue EXCEPT !.items = Push(@, run)]

\* run.run?.workspaceDir || queue.lastRun?.workspaceDir
InboxWorkspaceDir(run, queue) ==
  LET own  == IF IsDef(run.run) THEN Val(run.run).workspaceDir ELSE Undef
      last == IF IsDef(queue.lastRun) THEN Val(queue.lastRun).workspaceDir ELSE Undef
  IN IF Truthy(own) THEN own ELSE last

SkipOutcomeAfterPolicy(queue) ==
  [result |-> FALSE, queue |-> ApplyQueueDropPolicy(queue).queue, dropped |-> << >>,
   summaries |-> << >>, inboxWrite |-> Undef, refused |-> FALSE]

\* if (shouldSkipQueueItem(...)) { return false; }
SkipOutcome(queue) ==
  [result |-> FALSE, queue |-> queue, dropped |-> << >>, summaries |-> << >>,
   inboxWrite |-> Undef, refused |-> FALSE]

\* applyQueueDropPolicy when the evaluator's decision is admit: the eviction
\* policy when it admits; when it refuses, false and the queue as it found it
ApplyQueueDropPolicyDeciding(queue, admit) ==
  IF admit THEN ApplyQueueDropPolicy(queue)
  ELSE [admit |-> FALSE, queue |-> queue, dropped |-> << >>, summaries |-> << >>]

StampedKeepingLastRun(queue, run) == [queue EXCEPT !.lastEnqueuedAt = now]

\* queue.lastEnqueuedAt = Date.now(); queue.lastRun = run.run;
Stamped(queue, run) == [queue EXCEPT !.lastEnqueuedAt = now, !.lastRun = run.run]

RefusedOutcomeReportingTrue(policy) ==
  [result |-> TRUE, queue |-> policy.queue, dropped |-> policy.dropped,
   summaries |-> policy.summaries, inboxWrite |-> Undef, refused |-> TRUE]

\* if (!shouldEnqueue) { return false; }
RefusedOutcome(policy) ==
  [result |-> FALSE, queue |-> policy.queue, dropped |-> policy.dropped,
   summaries |-> policy.summaries, inboxWrite |-> Undef, refused |-> TRUE]

ShouldWriteInboxAlways(queue) == TRUE

\* if (queue.draining) { ... }
ShouldWriteInbox(queue) == queue.draining

\* The call enqueueFollowupRun(key, run, settings, dedupeMode): the queue it
\* leaves, its return value, what the drop policy dropped and summarized, and
\* the inbox block it hands to appendFile (none when undefined), for a decision
\* of the Drop Policy Evaluator.
EnqueueOutcomeDeciding(key, run, settings, dedupeMode, admit) ==
  LET queue == GetFollowupQueue(key, settings)
  IN IF ShouldSkipQueueItem(run, queue.items, dedupeMode)
     THEN SkipOutcome(queue)
     ELSE
       LET stamped == Stamped(queue, run)
           policy  == ApplyQueueDropPolicyDeciding(stamped, admit)
       IN IF ~policy.admit
          THEN RefusedOutcome(policy)
          ELSE
            LET pushed == PushAdmitted(stamped, policy, run)
                dir    == InboxWorkspaceDir(run, pushed)
            IN [result |-> TRUE, queue |-> pushed, dropped |-> policy.dropped,
                summaries |-> policy.summaries, refused |-> FALSE,
                inboxWrite |-> IF ShouldWriteInbox(pushed) /\ Truthy(dir)
                               THEN Some([dir |-> Val(dir), at |-> now,
                                          prompt |-> Trim(run.prompt)])
                               ELSE Undef]

\* the call under the bounded-size eviction policy, which admits every run
EnqueueOutcome(key, run, settings, dedupeMode) ==
  EnqueueOutcomeDeciding(key, run, settings, dedupeMode, TRUE)

Keys == {"k1", "k2"}

\* getFollowupQueueDepth as a function of the state
Depth(key) ==
  IF IsDef(GetExistingFollowupQueue(key)) THEN Len(Val(GetExistingFollowupQueue(key)).items)
  ELSE 0

\* the effect of a call with outcome o
EnqueueEffect(key, run, dedupeMode, o) ==
  /\ queues' = [queues EXCEPT ![key] = Some(o.queue)]
  /\ queueOrder' = IF IsDef(queues[key]) THEN queueOrder ELSE Append(queueOrder, key)
  /\ pendingAppends' = IF IsDef(o.inboxWrite)
                       THEN Append(pendingAppends, Val(o.inboxWrite))
                       ELSE pendingAppends
  /\ ret' = [op |-> "enqueue", key |-> key, run |-> run, dedupeMode |-> dedupeMode,
             before |-> queues[key], result |-> o.result, dropped |-> o.dropped,
             summaries |-> o.summaries, inboxWrite |-> o.inboxWrite,
             refused |-> o.refused]
  /\ UNCHANGED <<inbox, settingsOf>>

EnqueueFollowupRun(key, run, settings, dedupeMode) ==
  EnqueueEffect(key, run, dedupeMode, EnqueueOutcome(key, run, settings, dedupeMode))

\* the call when the Drop Policy Evaluator may also refuse
EnqueueFollowupRunDeciding(key, run, settings, dedupeMode, admit) ==
  EnqueueEffect(key, run, dedupeMode,
                EnqueueOutcomeDeciding(key, run, settings, dedupeMode, admit))

GetFollowupQueueDepthCreating(key) ==
  /\ ret' = [op |-> "depth", key |-> key, before |-> queues[key],
             result |-> Len(GetFollowupQueue(key, settingsOf[key]).items)]
  /\ queues' = [queues EXCEPT ![key] = Some(GetFollowupQueue(key, settingsOf[key]))]
  /\ queueOrder' = IF IsDef(queues[key]) THEN queueOrder ELSE Append(queueOrder, key)
  /\ UNCHANGED <<settingsOf, pendingAppends, inbox>>

GetFollowupQueueDepth(key) ==
  /\ ret' = [op |-> "depth", key |-> key, before |-> queues[key],
             result |-> IF IsDef(GetExistingFollowupQueue(key))
                        THEN Len(Val(GetExistingFollowupQueue(key)).items)
                        ELSE 0]
  /\ UNCHANGED queueVars

----------------------------------------------------------------------------
(* Inputs of the queue specification *)

T_hi == <<"h", "i">>
T_hiPadded == <<" ", "h", "i", " ">>
T_yo == <<"y", "o">>
T_m1 == <<"m", "1">>
T_m1Padded == <<" ", "m", "1", " ">>
T_blank == <<" ">>
T_sPadded == <<" ", "s", " ">>
T_tg == <<"t", "g">>
T_web == <<"w", "e", "b">>
T_123 == <<"1", "2", "3">>
T_456 == <<"4", "5", "6">>
T_a1 == <<"a", "1">>
T_7 == <<"7">>
T_w == <<"/", "w">>

\* a thread id is a string or a number (string | number); text is its decimal form
StringId(text) == [type |-> "string", text |-> text]
NumberId(text) == [type |-> "number", text |-> text]

RunCtx(workspaceDir, sessionKey) == [workspaceDir |-> workspaceDir, sessionKey |-> sessionKey]

BaseRun ==
  [prompt |-> T_hi, messageId |-> Some(T_m1), summaryLine |-> Undef, enqueuedAt |-> 0,
   originatingChannel |-> Some(T_tg), originatingTo |-> Some(T_123),
   originatingAccountId |-> Undef, originatingThreadId |-> Undef,
   run |-> Some(RunCtx(Some(T_w), Some("sk")))]

\* the same message id with padding, another prompt, a summary line, no run context
RunPadded ==
  [BaseRun EXCEPT !.messageId = Some(T_m1Padded), !.prompt = T_yo,
                  !.summaryLine = Some(T_sPadded), !.run = Undef]
\* the same message id to another destination
RunOtherTo == [BaseRun EXCEPT !.originatingTo = Some(T_456)]
\* no message id, the same prompt
RunNoId == [BaseRun EXCEPT !.messageId = Undef, !.run = Some(RunCtx(Undef, Undef))]
\* a blank message id, a blank summary line, the prompt padded
RunBlankId ==
  [BaseRun EXCEPT !.messageId = Some(T_blank), !.prompt = T_hiPadded,
                  !.summaryLine = Some(T_blank)]
\* the same message id and destination from another channel, account and thread
RunOtherChannel ==
  [BaseRun EXCEPT !.originatingChannel = Some(T_web), !.originatingAccountId = Some(T_a1),
                  !.originatingThreadId = Some(StringId(T_7))]

\* an empty message id
RunEmptyId == [BaseRun EXCEPT !.messageId = Some(<< >>)]

QueueRuns ==
  {BaseRun, RunPadded, RunOtherTo, RunNoId, RunBlankId, RunOtherChannel, RunEmptyId}

\* every run in every dedupe mode, on one key
QueueCalls == {<<"k1", r, m>> : r \in QueueRuns, m \in DedupeModes}

\* one configured capacity for all keys
QueueSettings == {[k \in Keys |-> [mode |-> "followup", cap |-> c]] : c \in 1..MaxCap}

\* 5 * 60 * 1_000
HANDOFF_MAX_AGE_MS == 300000

TickMs == HANDOFF_MAX_AGE_MS \div 2

Tick(maxTicks) ==
  /\ now < maxTicks * TickMs
  /\ now' = now + TickMs
  /\ ret' = [op |-> "tick"]

InitQueues ==
  /\ queues = [k \in Keys |-> Undef]
  /\ queueOrder = << >>
  /\ pendingAppends = << >>
  /\ inbox = << >>
  /\ now = 0
  /\ ret = [op |-> "init"]
  /\ enqSeq = 0

InitHandoff ==
  /\ handoffFile = Undef
  /\ phase = "running"
  /\ replay = Undef
  /\ hist = [saved |-> {}, settled |-> {},
             replayed |-> [id \in 1..MaxEnq |-> 0],
             lastSave |-> Undef, loadsSinceSave |-> 0, startups |-> 0, sawFile |-> FALSE,
             consumed |-> FALSE, unlinkFailed |-> FALSE, replayCrashed |-> FALSE,
             left |-> {}]

\* Telegram chat ids: a private chat and a group
ChatIds == {7, -10}

ChatKeys == {"7", "-10"}

\* session-state.json does not exist yet
InitProxy ==
  /\ store = Undef
  /\ tmuxLive = {}
  /\ inflight = [c \in ChatKeys |-> Undef]
  /\ detached = [c \in ChatKeys |-> "none"]

\* CLI runs and the session each one runs in: two runs share a sessionId
CliRunIds == {"a", "b", "c"}
CliSessionIds == {"s1", "s2"}
SessionOf(run) == IF run = "c" THEN "s2" ELSE "s1"

\* the files the secrets migration may touch
SecretsTargets == {"config", "secrets", "auth", "env"}
NoFiles == [at |-> [p \in SecretsTargets |-> Undef], backups |-> << >>]

InitCli ==
  /\ ACTIVE_CLI_RUNS = [s \in CliSessionIds |-> Undef]
  /\ cliRuns = [r \in CliRunIds |-> "idle"]
  /\ files = NoFiles

Init == InitQueues /\ settingsOf \in QueueSettings /\ InitHandoff /\ InitProxy /\ InitCli

QEnqueue ==
  \E c \in QueueCalls :
    /\ EnqueueFollowupRun(c[1], c[2], settingsOf[c[1]], c[3])
    /\ UNCHANGED <<now, enqSeq, cliVars, handoffVars, proxyVars>>

QDepth ==
  \E key \in Keys :
    /\ GetFollowupQueueDepth(key)
    /\ UNCHANGED <<now, enqSeq, cliVars, handoffVars, proxyVars>>

QTick ==
  /\ Tick(MaxTicksQ)
  /\ UNCHANGED <<queueVars, enqSeq, cliVars, handoffVars, proxyVars>>

NextQueue == QEnqueue \/ QDepth \/ QTick

SpecQueue == Init /\ [][NextQueue]_vars

----------------------------------------------------------------------------
(* The queue under an evaluator that may refuse *)

\* one key, used with dedup on
AdmitRuns == {BaseRun, RunPadded, RunOtherTo, RunNoId}

AdmitCalls == {<<"k1", r, m>> : r \in AdmitRuns, m \in {"message-id", "prompt"}}

\* hist.left observes the items that have left a queue
AEnqueue ==
  \E c \in AdmitCalls, admit \in BOOLEAN :
    /\ EnqueueFollowupRunDeciding(c[1], c[2], settingsOf[c[1]], c[3], admit)
    /\ hist' = [hist EXCEPT
                  !.left = @ \cup {<<c[1], ret'.dropped[i]>> : i \in 1..Len(ret'.dropped)}]
    /\ UNCHANGED <<now, enqSeq, cliVars, handoffFile, phase, replay, proxyVars>>

ADepth ==
  \E key \in Keys :
    /\ GetFollowupQueueDepth(key)
    /\ UNCHANGED <<now, enqSeq, cliVars, handoffVars, proxyVars>>

ATick ==
  /\ Tick(MaxTicksQ)
  /\ UNCHANGED <<queueVars, enqSeq, cliVars, handoffVars, proxyVars>>

NextAdmit == AEnqueue \/ ADepth \/ ATick

SpecAdmit == Init /\ [][NextAdmit]_vars

----------------------------------------------------------------------------
(* The queue while a run consumes it, and the inbox file *)

\* a run begins to consume the queue of the key
StartDrain(key) ==
  /\ IsDef(queues[key])
  /\ ~Val(queues[key]).draining
  /\ queues' = [queues EXCEPT ![key] = Some([Val(@) EXCEPT !.draining = TRUE])]
  /\ ret' = [op |-> "startDrain", key |-> key]
  /\ UNCHANGED <<settingsOf, queueOrder, pendingAppends, inbox>>

\* the consumer pops from the head
DrainNext(key) ==
  /\ IsDef(queues[key])
  /\ Val(queues[key]).draining
  /\ Val(queues[key]).items # << >>
  /\ queues' = [queues EXCEPT ![key] = Some([Val(@) EXCEPT !.items = Tail(@)])]
  /\ ret' = [op |-> "drainNext", key |-> key]
  /\ UNCHANGED <<settingsOf, queueOrder, pendingAppends, inbox>>

\* the run stops consuming
FinishDrain(key) ==
  /\ IsDef(queues[key])
  /\ Val(queues[key]).draining
  /\ queues' = [queues EXCEPT ![key] = Some([Val(@) EXCEPT !.draining = FALSE])]
  /\ ret' = [op |-> "finishDrain", key |-> key]
  /\ UNCHANGED <<settingsOf, queueOrder, pendingAppends, inbox>>

Remove(seq, i) == SubSeq(seq, 1, i - 1) \o SubSeq(seq, i + 1, Len(seq))

AppendSettlesUndoing(i, ok) ==
  /\ i \in 1..Len(pendingAppends)
  /\ pendingAppends' = Remove(pendingAppends, i)
  /\ inbox' = IF ok THEN Append(inbox, pendingAppends[i]) ELSE inbox
  /\ ret' = [op |-> "appendSettles", ok |-> ok, block |-> pendingAppends[i]]
  /\ queues' = [k \in Keys |->
                  IF ~ok /\ IsDef(queues[k]) /\ Val(queues[k]).items # << >>
                  THEN Some([Val(queues[k]) EXCEPT
                               !.items = SubSeq(@, 1, Len(@) - 1)])
                  ELSE queues[k]]
  /\ UNCHANGED <<settingsOf, queueOrder>>

\* void appendFile(inboxFile, entry, "utf8").catch(...): one of the appends in
\* flight settles; a failed one is logged and leaves the file as it was
AppendSettles(i, ok) ==
  /\ i \in 1..Len(pendingAppends)
  /\ pendingAppends' = Remove(pendingAppends, i)
  /\ inbox' = IF ok THEN Append(inbox, pendingAppends[i]) ELSE inbox
  /\ ret' = [op |-> "appendSettles", ok |-> ok, block |-> pendingAppends[i]]
  /\ UNCHANGED <<queues, settingsOf, queueOrder>>

\* a run whose context carries another workspace
T_v == <<"/", "v">>

RunOtherWorkspace ==
  [BaseRun EXCEPT !.messageId = Undef, !.prompt = T_hiPadded,
                  !.run = Some(RunCtx(Some(T_v), Some("sk")))]

\* with a workspace, with a context without one, without a context
InboxRuns == {BaseRun, RunNoId, RunPadded, RunOtherWorkspace}

InboxCalls == {<<"k1", r, "message-id">> : r \in InboxRuns}

IEnqueue ==
  \E c \in InboxCalls :
    /\ Len(pendingAppends) + Len(inbox) < MaxInbox
    /\ EnqueueFollowupRun(c[1], c[2], settingsOf[c[1]], c[3])
    /\ UNCHANGED <<now, enqSeq, cliVars, handoffVars, proxyVars>>

IStartDrain ==
  \E key \in Keys : StartDrain(key) /\ UNCHANGED <<now, enqSeq, cliVars, handoffVars, proxyVars>>

IDrainNext ==
  \E key \in Keys : DrainNext(key) /\ UNCHANGED <<now, enqSeq, cliVars, handoffVars, proxyVars>>

IFinishDrain ==
  \E key \in Keys : FinishDrain(key) /\ UNCHANGED <<now, enqSeq, cliVars, handoffVars, proxyVars>>

IAppendSettles ==
  \E i \in 1..Len(pendingAppends), ok \in BOOLEAN :
    AppendSettles(i, ok) /\ UNCHANGED <<now, enqSeq, cliVars, handoffVars, proxyVars>>

ITick ==
  /\ Tick(MaxTicksQ)
  /\ UNCHANGED <<queueVars, enqSeq, cliVars, handoffVars, proxyVars>>

NextInbox ==
  IEnqueue \/ IStartDrain \/ IDrainNext \/ IFinishDrain \/ IAppendSettles \/ ITick

SpecInbox == Init /\ [][NextInbox]_vars

----------------------------------------------------------------------------
(* Restart Handoff: restart-handoff.ts *)

SeqCount(n) == IF n < 2 THEN n + 1 ELSE 2

\* .filter((item) => Boolean(item.originatingTo))
NeedsExternalDelivery(item) == Truthy(item.originatingTo)

\* the HandoffItem built from a queued FollowupRun
ToHandoffItem(item) ==
  [prompt |-> item.prompt,
   messageId |-> item.messageId,
   summaryLine |-> item.summaryLine,
   enqueuedAt |-> item.enqueuedAt,
   originatingChannel |-> item.originatingChannel,
   originatingTo |-> item.originatingTo,
   originatingAccountId |-> item.originatingAccountId,
   originatingThreadId |-> item.originatingThreadId,
   sessionKey |-> IF IsDef(item.run) THEN Val(item.run).sessionKey ELSE Undef]

OptionalItemFields ==
  {"messageId", "summaryLine", "originatingChannel", "originatingTo",
   "originatingAccountId", "originatingThreadId", "sessionKey"}

\* JSON.stringify of a HandoffItem: a property whose value is undefined is left out
StringifyItem(h) ==
  [f \in {"prompt", "enqueuedAt"} \cup {g \in OptionalItemFields : IsDef(h[g])} |->
     IF f \in OptionalItemFields THEN Val(h[f]) ELSE h[f]]

\* JSON.parse of an item: a property that is not there reads as undefined
ParseItem(j) ==
  [f \in {"prompt", "enqueuedAt"} \cup OptionalItemFields |->
     IF f \in OptionalItemFields
     THEN (IF f \in DOMAIN j THEN Some(j[f]) ELSE Undef)
     ELSE j[f]]

StringifyData(data) ==
  [savedAt |-> data.savedAt, version |-> data.version,
   queues |-> [i \in 1..Len(data.queues) |->
                 [key |-> data.queues[i].key, mode |-> data.queues[i].mode,
                  items |-> [n \in 1..Len(data.queues[i].items) |->
                               StringifyItem(data.queues[i].items[n])]]]]

ParseData(json) ==
  [savedAt |-> json.savedAt, version |-> json.version,
   queues |-> [i \in 1..Len(json.queues) |->
                 [key |-> json.queues[i].key, mode |-> json.queues[i].mode,
                  items |-> [n \in 1..Len(json.queues[i].items) |->
                               ParseItem(json.queues[i].items[n])]]]]

\* what a write that failed half way leaves behind
TruncatedFile == [parsable |-> FALSE, json |-> [savedAt |-> 0, version |-> 0, queues |-> << >>]]

HasItems(handoffQueue) == Len(handoffQueue.items) > 0

SerializableAll(items) == [n \in 1..Len(items) |-> ToHandoffItem(items[n])]

SerializableReversed(items) ==
  LET kept == SelectSeq(items, NeedsExternalDelivery)
  IN [n \in 1..Len(kept) |-> ToHandoffItem(kept[Len(kept) + 1 - n])]

\* queue.items.filter(...).map(...)
SerializableItems(items) ==
  LET kept == SelectSeq(items, NeedsExternalDelivery)
  IN [n \in 1..Len(kept) |-> ToHandoffItem(kept[n])]

\* the queues array that saveRestartHandoff builds from FOLLOWUP_QUEUES
HandoffQueues ==
  LET all == [i \in 1..Len(queueOrder) |->
                [key |-> queueOrder[i],
                 mode |-> Val(queues[queueOrder[i]]).mode,
                 items |-> SerializableItems(Val(queues[queueOrder[i]]).items)]]
  IN SelectSeq(all, HasItems)

SaveIO == {"ok", "writeFail", "truncated"}

\* saveRestartHandoff(): the file it leaves.  io is what the file system does
\* with mkdirSync / writeFileSync.
SaveOutcome(io) ==
  IF Len(HandoffQueues) = 0 THEN handoffFile
  ELSE LET data == [savedAt |-> now, version |-> 1, queues |-> HandoffQueues]
       IN CASE io = "ok" -> Some([parsable |-> TRUE, json |-> StringifyData(data)])
            [] io = "truncated" -> Some(TruncatedFile)
            [] OTHER -> handoffFile

LoadIO == {"ok", "readFail", "unlinkFail"}

LoadOutcomeKeepingFile(io) ==
  IF ~IsDef(handoffFile) THEN [result |-> Undef, file |-> handoffFile]
  ELSE IF io = "readFail" THEN [result |-> Undef, file |-> handoffFile]
  ELSE
    LET raw == Val(handoffFile)
    IN IF ~raw.parsable THEN [result |-> Undef, file |-> handoffFile]
       ELSE IF now - ParseData(raw.json).savedAt > HANDOFF_MAX_AGE_MS
       THEN [result |-> Undef, file |-> handoffFile]
       ELSE [result |-> Some(ParseData(raw.json)), file |-> handoffFile]

LoadOutcomeAnyAge(io) ==
  IF ~IsDef(handoffFile) THEN [result |-> Undef, file |-> handoffFile]
  ELSE IF io = "readFail" THEN [result |-> Undef, file |-> handoffFile]
  ELSE
    LET raw == Val(handoffFile)
        after == IF io = "unlinkFail" THEN handoffFile ELSE Undef
    IN IF ~raw.parsable THEN [result |-> Undef, file |-> after]
       ELSE [result |-> Some(ParseData(raw.json)), file |-> after]

LoadOutcomeParseFirst(io) ==
  IF ~IsDef(handoffFile) THEN [result |-> Undef, file |-> handoffFile]
  ELSE IF io = "readFail" THEN [result |-> Undef, file |-> handoffFile]
  ELSE
    LET raw == Val(handoffFile)
        after == IF io = "unlinkFail" THEN handoffFile ELSE Undef
    IN IF ~raw.parsable THEN [result |-> Undef, file |-> handoffFile]
       ELSE IF now - ParseData(raw.json).savedAt > HANDOFF_MAX_AGE_MS
       THEN [result |-> Undef, file |-> after]
       ELSE [result |-> Some(ParseData(raw.json)), file |-> after]

LoadOutcomeKeepingStale(io) ==
  IF ~IsDef(handoffFile) THEN [result |-> Undef, file |-> handoffFile]
  ELSE IF io = "readFail" THEN [result |-> Undef, file |-> handoffFile]
  ELSE
    LET raw == Val(handoffFile)
        after == IF io = "unlinkFail" THEN handoffFile ELSE Undef
    IN IF ~raw.parsable THEN [result |-> Undef, file |-> after]
       ELSE IF now - ParseData(raw.json).savedAt > HANDOFF_MAX_AGE_MS
       THEN [result |-> Undef, file |-> handoffFile]
       ELSE [result |-> Some(ParseData(raw.json)), file |-> after]

\* loadAndClearRestartHandoff(): what it returns and the file it leaves.  io is
\* what the file system does with readFileSync / unlinkSync.
LoadOutcome(io) ==
  IF ~IsDef(handoffFile) THEN [result |-> Undef, file |-> handoffFile]
  ELSE IF io = "readFail" THEN [result |-> Undef, file |-> handoffFile]
  ELSE
    LET raw == Val(handoffFile)
        after == IF io = "unlinkFail" THEN handoffFile ELSE Undef
    IN IF ~raw.parsable THEN [result |-> Undef, file |-> after]
       ELSE IF now - ParseData(raw.json).savedAt > HANDOFF_MAX_AGE_MS
       THEN [result |-> Undef, file |-> after]
       ELSE [result |-> Some(ParseData(raw.json)), file |-> after]

\* the enqueuedAt of the queued items that need external delivery
IdsToSave ==
  {id \in 1..MaxEnq :
     \E k \in Keys : /\ IsDef(queues[k])
                     /\ \E n \in 1..Len(Val(queues[k]).items) :
                          /\ Val(queues[k]).items[n].enqueuedAt = id
                          /\ NeedsExternalDelivery(Val(queues[k]).items[n])}

SaveRestartHandoffDraining(io) ==
  /\ phase = "running"
  /\ phase' = "stopping"
  /\ handoffFile' = SaveOutcome(io)
  /\ ret' = [op |-> "save", io |-> io, fileBefore |-> handoffFile]
  /\ hist' = [hist EXCEPT !.saved = @ \cup IdsToSave,
                          !.lastSave = Some([queues |-> queues, order |-> queueOrder,
                                             at |-> now, io |-> io]),
                          !.loadsSinceSave = 0,
                          !.sawFile = FALSE,
                          !.consumed = FALSE]
  /\ queues' = [k \in Keys |->
                  IF IsDef(queues[k]) THEN Some([Val(queues[k]) EXCEPT !.items = << >>])
                  ELSE queues[k]]
  /\ UNCHANGED <<settingsOf, queueOrder, pendingAppends, inbox, now, enqSeq, cliVars, replay>>

\* saveRestartHandoff(): mkdirSync / writeFileSync inside try, the catch logs
SaveRestartHandoff(io) ==
  /\ phase = "running"
  /\ phase' = "stopping"
  /\ handoffFile' = SaveOutcome(io)
  /\ ret' = [op |-> "save", io |-> io, fileBefore |-> handoffFile]
  /\ hist' = [hist EXCEPT !.saved = @ \cup IdsToSave,
                          !.lastSave = Some([queues |-> queues, order |-> queueOrder,
                                             at |-> now, io |-> io]),
                          !.loadsSinceSave = 0,
                          !.sawFile = FALSE,
                          !.consumed = FALSE]
  /\ UNCHANGED <<queueVars, now, enqSeq, cliVars, replay>>

\* the process ends: what it held in memory is gone
ProcessMemoryLost ==
  /\ queues' = [k \in Keys |-> Undef]
  /\ queueOrder' = << >>
  /\ pendingAppends' = << >>
  /\ replay' = Undef
  /\ UNCHANGED <<settingsOf, inbox>>

ProcessExit ==
  /\ phase = "stopping"
  /\ phase' = "down"
  /\ ProcessMemoryLost
  /\ ret' = [op |-> "exit"]
  /\ UNCHANGED <<handoffFile, hist, now, enqSeq, cliVars>>

Crash ==
  /\ phase \in {"running", "replaying"}
  /\ phase' = "down"
  /\ ProcessMemoryLost
  /\ ret' = [op |-> "crash"]
  /\ hist' = [hist EXCEPT !.replayCrashed = @ \/ phase = "replaying"]
  /\ UNCHANGED <<handoffFile, now, enqSeq, cliVars>>

\* startup: loadAndClearRestartHandoff(), then replayHandoffQueues if it
\* returned a snapshot
Startup(io) ==
  LET o == LoadOutcome(io)
      replays == IsDef(o.result) /\ Len(Val(o.result).queues) > 0
  IN /\ phase = "down"
     /\ hist.startups < MaxStartups
     /\ handoffFile' = o.file
     /\ ret' = [op |-> "load", io |-> io, fileBefore |-> handoffFile, result |-> o.result,
                sawFileBefore |-> hist.sawFile, consumedBefore |-> hist.consumed]
     /\ phase' = IF replays THEN "replaying" ELSE "running"
     /\ replay' = IF replays THEN Some([data |-> Val(o.result), qi |-> 1, ii |-> 1])
                  ELSE Undef
     /\ hist' = [hist EXCEPT
                   !.loadsSinceSave = SeqCount(@),
                   !.startups = @ + 1,
                   !.sawFile = @ \/ IsDef(handoffFile),
                   !.consumed = @ \/ (IsDef(handoffFile) /\ io = "ok"),
                   !.unlinkFailed = @ \/ (IsDef(handoffFile) /\ io = "unlinkFail"),
                   !.settled = IF replays THEN @ ELSE hist.saved]
     /\ UNCHANGED <<queueVars, now, enqSeq, cliVars>>

\* item.originatingThreadId != null ? String(item.originatingThreadId) : undefined
ThreadIdParam(item) ==
  IF IsDef(item.originatingThreadId) THEN Some(Val(item.originatingThreadId).text) ELSE Undef

\* the params of callGateway({method: "agent", ...}) for one replayed item
ReplayParams(queue, item) ==
  [sessionKey |-> IF IsDef(item.sessionKey) THEN Val(item.sessionKey) ELSE queue.key,
   message |-> item.prompt,
   deliver |-> TRUE,
   channel |-> item.originatingChannel,
   to |-> item.originatingTo,
   accountId |-> item.originatingAccountId,
   threadId |-> ThreadIdParam(item)]

ReplayItemAbortingOnFailure(ok) ==
  /\ phase = "replaying"
  /\ LET r == Val(replay)
         queue == r.data.queues[r.qi]
         item == queue.items[r.ii]
         lastOfQueue == r.ii = Len(queue.items)
         lastOfAll == ~ok \/ (lastOfQueue /\ r.qi = Len(r.data.queues))
     IN /\ ret' = [op |-> "replayItem", key |-> queue.key, item |-> item,
                   params |-> ReplayParams(queue, item), ok |-> ok]
        /\ replay' = IF lastOfAll THEN Undef
                     ELSE IF lastOfQueue THEN Some([r EXCEPT !.qi = @ + 1, !.ii = 1])
                     ELSE Some([r EXCEPT !.ii = @ + 1])
        /\ phase' = IF lastOfAll THEN "running" ELSE "replaying"
        /\ hist' = [hist EXCEPT !.replayed[item.enqueuedAt] = SeqCount(@),
                                !.settled = IF lastOfAll THEN hist.saved ELSE @]
  /\ UNCHANGED <<queueVars, handoffFile, now, enqSeq, cliVars>>

\* one turn of the loops of replayHandoffQueues: the item at the cursor is
\* submitted (callGateway resolves, or throws and is caught), and the cursor
\* moves on
ReplayItem(ok) ==
  /\ phase = "replaying"
  /\ LET r == Val(replay)
         queue == r.data.queues[r.qi]
         item == queue.items[r.ii]
         lastOfQueue == r.ii = Len(queue.items)
         lastOfAll == lastOfQueue /\ r.qi = Len(r.data.queues)
     IN /\ ret' = [op |-> "replayItem", key |-> queue.key, item |-> item,
                   params |-> ReplayParams(queue, item), ok |-> ok]
        /\ replay' = IF lastOfAll THEN Undef
                     ELSE IF lastOfQueue THEN Some([r EXCEPT !.qi = @ + 1, !.ii = 1])
                     ELSE Some([r EXCEPT !.ii = @ + 1])
        /\ phase' = IF lastOfAll THEN "running" ELSE "replaying"
        /\ hist' = [hist EXCEPT !.replayed[item.enqueuedAt] = SeqCount(@),
                                !.settled = IF lastOfAll THEN hist.saved ELSE @]
  /\ UNCHANGED <<queueVars, handoffFile, now, enqSeq, cliVars>>

----------------------------------------------------------------------------
(* The handoff specification: enqueue, shutdown, crash, startup, replay *)

\* a message that must go back to a chat
HRunTo ==
  [prompt |-> T_hi, messageId |-> Some(T_m1), summaryLine |-> Undef, enqueuedAt |-> 0,
   originatingChannel |-> Some(T_tg), originatingTo |-> Some(T_123),
   originatingAccountId |-> Undef, originatingThreadId |-> Some(NumberId(T_7)),
   run |-> Some(RunCtx(Undef, Some("sk")))]
\* an internal run: no destination, no run context
HRunInternal ==
  [HRunTo EXCEPT !.messageId = Undef, !.originatingTo = Undef,
                 !.originatingThreadId = Undef, !.run = Undef]
\* a run whose destination is the empty string
HRunEmptyTo == [HRunInternal EXCEPT !.originatingTo = Some(<< >>), !.prompt = T_yo]

\* another message to another chat
HRunOtherTo ==
  [HRunTo EXCEPT !.messageId = Undef, !.originatingTo = Some(T_456),
                 !.originatingAccountId = Some(T_a1),
                 !.originatingThreadId = Some(StringId(T_7)), !.run = Undef]

HandoffRuns == {HRunTo, HRunInternal, HRunEmptyTo, HRunOtherTo}

HandoffSettings ==
  [k \in Keys |-> [mode |-> IF k = "k1" THEN "followup" ELSE "collect", cap |-> MaxCap]]

\* every run on the first key, one on the second
HandoffCalls == {<<"k1", r>> : r \in HandoffRuns} \cup {<<"k2", HRunTo>>}

HEnqueue ==
  \E c \in HandoffCalls :
    /\ phase = "running"
    /\ enqSeq < MaxEnq
    /\ enqSeq' = enqSeq + 1
    /\ UNCHANGED cliVars
    /\ EnqueueFollowupRun(c[1], [c[2] EXCEPT !.enqueuedAt = enqSeq + 1], settingsOf[c[1]],
                          "message-id")
    /\ UNCHANGED <<now, handoffVars, proxyVars>>

HSave ==
  \E io \in SaveIO :
    /\ SaveRestartHandoff(io)
    /\ UNCHANGED proxyVars

HExit == ProcessExit /\ UNCHANGED proxyVars

HCrash == Crash /\ UNCHANGED proxyVars

HStartup ==
  \E io \in LoadIO :
    /\ Startup(io)
    /\ UNCHANGED proxyVars

HReplay ==
  \E ok \in BOOLEAN :
    /\ ReplayItem(ok)
    /\ UNCHANGED proxyVars

\* the handoff reads the clock only for savedAt and for the age at load: time
\* passes between the two, while the process is down
HTick ==
  /\ phase = "down"
  /\ Tick(MaxTicks)
  /\ UNCHANGED <<queueVars, enqSeq, cliVars, handoffVars, proxyVars>>

InitH ==
  /\ InitQueues
  /\ settingsOf = HandoffSettings
  /\ InitHandoff
  /\ InitProxy
  /\ InitCli

NextHandoff == HEnqueue \/ HSave \/ HExit \/ HCrash \/ HStartup \/ HReplay \/ HTick

SpecHandoff == InitH /\ [][NextHandoff]_vars

----------------------------------------------------------------------------
(* Interactive Session Router: session-state.ts, session-proxy.ts,         *)
(* tmux-runner.ts, resume-runner.ts and the Telegram message processor     *)

\* the capital letters of the Latin and the Russian alphabet with their small letters;
\* a Russian letter is written as its name: "RU_N" is the capital, "ru_n" the small one
LetterCase ==
  {<<"A", "a">>, <<"B", "b">>, <<"C", "c">>, <<"D", "d">>, <<"E", "e">>, <<"F", "f">>,
   <<"G", "g">>, <<"H", "h">>, <<"I", "i">>, <<"J", "j">>, <<"K", "k">>, <<"L", "l">>,
   <<"M", "m">>, <<"N", "n">>, <<"O", "o">>, <<"P", "p">>, <<"Q", "q">>, <<"R", "r">>,
   <<"S", "s">>, <<"T", "t">>, <<"U", "u">>, <<"V", "v">>, <<"W", "w">>, <<"X", "x">>,
   <<"Y", "y">>, <<"Z", "z">>, <<"RU_A", "ru_a">>, <<"RU_B", "ru_b">>, <<"RU_V", "ru_v">>,
   <<"RU_G", "ru_g">>, <<"RU_D", "ru_d">>, <<"RU_E", "ru_e">>, <<"RU_ZH", "ru_zh">>,
   <<"RU_Z", "ru_z">>, <<"RU_I", "ru_i">>, <<"RU_J", "ru_j">>, <<"RU_K", "ru_k">>,
   <<"RU_L", "ru_l">>, <<"RU_M", "ru_m">>, <<"RU_N", "ru_n">>, <<"RU_O", "ru_o">>,
   <<"RU_P", "ru_p">>, <<"RU_R", "ru_r">>, <<"RU_S", "ru_s">>, <<"RU_T", "ru_t">>,
   <<"RU_U", "ru_u">>, <<"RU_F", "ru_f">>, <<"RU_H", "ru_h">>, <<"RU_C", "ru_c">>,
   <<"RU_CH", "ru_ch">>, <<"RU_SH", "ru_sh">>, <<"RU_SHCH", "ru_shch">>,
   <<"RU_HARD", "ru_hard">>, <<"RU_Y", "ru_y">>, <<"RU_SOFT", "ru_soft">>,
   <<"RU_EH", "ru_eh">>, <<"RU_YU", "ru_yu">>, <<"RU_YA", "ru_ya">>, <<"RU_YO", "ru_yo">>}

ToLowerChar(c) ==
  IF \E p \in LetterCase : p[1] = c THEN (CHOOSE p \in LetterCase : p[1] = c)[2] ELSE c

\* String.prototype.toLowerCase()
ToLowerCase(s) == [i \in 1..Len(s) |-> ToLowerChar(s[i])]

BACK_COMMANDS ==
  {<<"ru_n", "ru_a", "ru_z", "ru_a", "ru_d">>,
   <<"b", "a", "c", "k">>,
   <<"ru_v", "ru_e", "ru_r", "ru_n", "ru_i", "ru_s", "ru_soft">>,
   <<"ru_v", "ru_y", "ru_j", "ru_t", "ru_i">>,
   <<"ru_v", "ru_y", "ru_j", "ru_d", "ru_i">>,
   <<"ru_o", "ru_t", "ru_k", "ru_l", "ru_yu", "ru_ch", "ru_i", "ru_t", "ru_soft">>,
   <<"d", "e", "t", "a", "c", "h">>,
   <<"e", "x", "i", "t", " ", "s", "e", "s", "s", "i", "o", "n">>,
   <<"ru_v", "ru_y", "ru_h", "ru_o", "ru_d", " ", "ru_i", "ru_z", " ", "ru_s", "ru_e", "ru_s", "ru_s", "ru_i", "ru_i">>,
   <<"ru_v", "ru_e", "ru_r", "ru_n", "ru_u", "ru_t", "ru_soft", "ru_s", "ru_ya">>}

SCREEN_COMMANDS ==
  {<<"ru_eh", "ru_k", "ru_r", "ru_a", "ru_n">>,
   <<"s", "c", "r", "e", "e", "n">>,
   <<"ru_ch", "ru_t", "ru_o", " ", "ru_t", "ru_a", "ru_m">>,
   <<"ru_p", "ru_o", "ru_k", "ru_a", "ru_zh", "ru_i", " ", "ru_eh", "ru_k", "ru_r", "ru_a", "ru_n">>,
   <<"c", "a", "p", "t", "u", "r", "e">>,
   <<"ru_s", "ru_t", "ru_a", "ru_t", "ru_u", "ru_s">>}

TimeoutNote ==
  <<"\n", "\n", "_", "(", "ru_t", "ru_a", "ru_j", "ru_m", "ru_a", "ru_u", "ru_t", " ",
    "ru_o", "ru_zh", "ru_i", "ru_d", "ru_a", "ru_n", "ru_i", "ru_ya", " ", "emdash", " ",
    "ru_o", "ru_t", "ru_v", "ru_e", "ru_t", " ", "ru_m", "ru_o", "ru_zh", "ru_e", "ru_t",
    " ", "ru_b", "ru_y", "ru_t", "ru_soft", " ", "ru_n", "ru_e", "ru_p", "ru_o", "ru_l",
    "ru_n", "ru_y", "ru_m", ")", "_">>

NoAnswer ==
  <<"(", "ru_n", "ru_e", "ru_t", " ", "ru_o", "ru_t", "ru_v", "ru_e", "ru_t", "ru_a", ")">>

T_NAZAD == <<"RU_N", "RU_A", "RU_Z", "RU_A", "RU_D">>
T_BackPadded == <<" ", "B", "a", "C", "k", " ">>
T_back == <<"b", "a", "c", "k">>
T_backup == <<"b", "a", "c", "k", "u", "p">>
T_Screen == <<"S", "c", "r", "e", "e", "n">>
T_ls == <<"l", "s">>
T_done == <<"o", "k">>
T_donePadded == <<" ", "o", "k", "\n">>
T_boomPadded == <<" ", "n", "o", "\n">>
T_pane == <<" ", "$", " ", "l", "s", "\n">>
\* a pane of 3001 characters and a line end, an answer of 4001 characters
T_longPane == [i \in 1..3002 |-> IF i = 3002 THEN "\n" ELSE IF i = 1 THEN "$" ELSE "x"]
T_longAnswer == [i \in 1..4001 |-> "y"]
T_w1 == <<"w", "1">>
T_w2 == <<"w", "2">>
T_uuid == <<"0", "1", "2", "3", "4", "5", "6", "7", "-", "8", "9">>
T_cwd == <<"/", "p">>
T_lbl == <<"d", "e", "v">>
T_tmuxColon == <<"t", "m", "u", "x", ":">>
T_resumeColon == <<"r", "e", "s", "u", "m", "e", ":">>
T_undefined == <<"u", "n", "d", "e", "f", "i", "n", "e", "d">>

\* `${x}` of a string | undefined inside a template literal
Interpolate(o) == IF IsDef(o) THEN Val(o) ELSE T_undefined

\* loadState(): the parsed file, {} when it cannot be read
LoadState == IF IsDef(store) THEN Val(store) ELSE [c \in ChatKeys |-> Undef]

GetSessionOfAnyChat(chatId) ==
  IF \E c \in ChatKeys : IsDef(LoadState[c])
  THEN LoadState[CHOOSE c \in ChatKeys : IsDef(LoadState[c])]
  ELSE Undef

\* getSession(chatId)
GetSession(chatId) == LoadState[chatId]

ClearSessionDroppingAll(chatId) ==
  IF ~IsDef(LoadState[chatId]) THEN store
  ELSE Some([c \in ChatKeys |-> Undef])

\* the file after clearSession(chatId): rewritten only if the chat has an entry
ClearSession(chatId) ==
  IF ~IsDef(LoadState[chatId]) THEN store
  ELSE Some([LoadState EXCEPT ![chatId] = Undef])

\* setTmuxSession(chatId, tmuxSession, label)
SetTmuxSession(chatId, tmuxSession, label) ==
  /\ store' = Some([LoadState EXCEPT ![chatId] =
                      Some([mode |-> "tmux", tmuxSession |-> Some(tmuxSession),
                            resumeId |-> Undef, cwd |-> Undef, label |-> Some(label),
                            switchedAt |-> now])])
  /\ detached' = [detached EXCEPT ![chatId] = "none"]
  /\ ret' = [op |-> "setTmuxSession", chat |-> chatId]
  /\ UNCHANGED <<tmuxLive, inflight>>

\* setResumeSession(chatId, resumeId, cwd, label)
SetResumeSession(chatId, resumeId, cwd, label) ==
  /\ store' = Some([LoadState EXCEPT ![chatId] =
                      Some([mode |-> "resume", tmuxSession |-> Undef,
                            resumeId |-> Some(resumeId), cwd |-> Some(cwd),
                            label |-> Some(label), switchedAt |-> now])])
  /\ detached' = [detached EXCEPT ![chatId] = "none"]
  /\ ret' = [op |-> "setResumeSession", chat |-> chatId]
  /\ UNCHANGED <<tmuxLive, inflight>>

IsBackCommandExact(text) == text \in BACK_COMMANDS

IsBackCommand(text) == Trim(ToLowerCase(text)) \in BACK_COMMANDS

IsScreenCommandExact(text) == text \in SCREEN_COMMANDS

IsScreenCommand(text) == Trim(ToLowerCase(text)) \in SCREEN_COMMANDS

\* formatLabel: the text shown between "[Session: " and "]"
FormatLabel(label, sessionId) ==
  LET displayLabel == IF IsDef(label) THEN Val(label) ELSE SliceTo(sessionId, 8)
  IN IF Len(displayLabel) > 40 THEN SliceTo(displayLabel, 40) \o <<"ellipsis">>
     ELSE displayLabel

\* tmux has-session -t name, in a world where the sessions of live exist
TmuxHasSession(sessionName, live) == sessionName \in live

CheckTmuxSessionAssumed(sessionName) == TRUE

CheckTmuxSession(sessionName) == TmuxHasSession(sessionName, tmuxLive)

\* captureTmuxScreen: the pane, "" when capture-pane fails
CaptureTmuxScreen(sessionName, live, pane) ==
  IF TmuxHasSession(sessionName, live) THEN pane ELSE << >>

RunWithResumeIgnoringError(proc) ==
  IF proc.status # 0
  THEN [success |-> FALSE, output |-> << >>,
        error |-> Some(IF Trim(proc.stderr) # << >>
                       THEN [kind |-> "stderr", text |-> Trim(proc.stderr)]
                       ELSE [kind |-> "exitCode", status |-> proc.status])]
  ELSE [success |-> TRUE, output |-> Trim(proc.stdout), error |-> Undef]

\* runWithResume: the result for an outcome of spawnSync
RunWithResume(proc) ==
  IF proc.error THEN [success |-> FALSE, output |-> << >>, error |-> Some([kind |-> "spawn"])]
  ELSE IF proc.status # 0
  THEN [success |-> FALSE, output |-> << >>,
        error |-> Some(IF Trim(proc.stderr) # << >>
                       THEN [kind |-> "stderr", text |-> Trim(proc.stderr)]
                       ELSE [kind |-> "exitCode", status |-> proc.status])]
  ELSE [success |-> TRUE, output |-> Trim(proc.stdout), error |-> Undef]

\* what tryProxyMessage does when it neither handles nor changes anything
NotHandled ==
  [handled |-> FALSE, pending |-> FALSE, response |-> Undef, store |-> store,
   keys |-> << >>, resumeCall |-> Undef, proc |-> Undef, capture |-> Undef,
   await |-> Undef,
   live |-> tmuxLive, detach |-> "none"]

\* tryProxyMessage(chatId, messageText) up to its return or to the first wait of
\* sendToTmux.  A response is the template that produced it and the texts put into
\* it; every template has fixed text, so a response is never the empty string.
\* e is what the outside world does during the call: whether the tmux session
\* disappears after the liveness check, the pane content, the resume subprocess.
TryProxyMessage(chatId, messageText, e) ==
  LET session == GetSession(chatId) IN
  IF ~IsDef(session) THEN NotHandled
  ELSE
    LET s == Val(session) IN
    IF IsBackCommand(messageText)
    THEN [NotHandled EXCEPT
            !.handled = TRUE,
            !.store = ClearSession(chatId),
            !.detach = "back",
            !.response = Some([kind |-> "detached",
                               mode |-> IF s.mode = "tmux"
                                        THEN T_tmuxColon \o Interpolate(s.tmuxSession)
                                        ELSE T_resumeColon \o
                                             Interpolate(IF IsDef(s.resumeId)
                                                         THEN Some(SliceTo(Val(s.resumeId), 8))
                                                         ELSE Undef)])]
    ELSE IF s.mode = "tmux" /\ Truthy(s.tmuxSession)
    THEN
      LET tmuxName == Val(s.tmuxSession)
          label == FormatLabel(s.label, tmuxName)
          live2 == IF e.diesBetween THEN tmuxLive \ {tmuxName} ELSE tmuxLive
      IN
      IF ~CheckTmuxSession(tmuxName)
      THEN [NotHandled EXCEPT
              !.handled = TRUE,
              !.store = ClearSession(chatId),
              !.detach = "dead",
              !.response = Some([kind |-> "notFound", tmuxName |-> tmuxName])]
      ELSE IF IsScreenCommand(messageText)
      THEN [NotHandled EXCEPT
              !.handled = TRUE,
              !.live = live2,
              !.capture = Some(CaptureTmuxScreen(tmuxName, live2, e.pane)),
              !.response =
                 Some([kind |-> "screen", label |-> label,
                       body |-> SliceLast(Trim(CaptureTmuxScreen(tmuxName, live2, e.pane)),
                                          3000)])]
      ELSE IF ~TmuxHasSession(tmuxName, live2)
      THEN [NotHandled EXCEPT
              !.handled = TRUE,
              !.live = live2,
              !.response = Some([kind |-> "tmuxError", label |-> label,
                                 error |-> [kind |-> "notFound", tmuxName |-> tmuxName]])]
      ELSE [NotHandled EXCEPT
              !.pending = TRUE,
              !.keys = << [session |-> tmuxName, literal |-> Some(messageText)],
                          [session |-> tmuxName, literal |-> Undef] >>,
              !.await = Some([tmuxName |-> tmuxName, label |-> label,
                              message |-> messageText])]
    ELSE IF s.mode = "resume" /\ Truthy(s.resumeId) /\ Truthy(s.cwd)
    THEN
      LET label == FormatLabel(s.label, Val(s.resumeId))
          result == RunWithResume(e.proc)
          call == Some([sessionId |-> Val(s.resumeId), cwd |-> Val(s.cwd),
                        message |-> messageText])
      IN
      IF ~result.success
      THEN [NotHandled EXCEPT
              !.handled = TRUE,
              !.resumeCall = call,
              !.proc = Some(e.proc),
              !.response = Some([kind |-> "resumeError", label |-> label,
                                 error |-> Val(result.error)])]
      ELSE [NotHandled EXCEPT
              !.handled = TRUE,
              !.resumeCall = call,
              !.proc = Some(e.proc),
              !.response = Some([kind |-> "output", label |-> label,
                                 body |-> SliceTo(result.output, 4000)])]
    ELSE NotHandled

\* String(context.chatId)
Digit(d) ==
  CASE d = 0 -> "0" [] d = 1 -> "1" [] d = 2 -> "2" [] d = 3 -> "3" [] d = 4 -> "4"
    [] d = 5 -> "5" [] d = 6 -> "6" [] d = 7 -> "7" [] d = 8 -> "8" [] d = 9 -> "9"

RECURSIVE NatToString(_)
NatToString(n) == IF n < 10 THEN Digit(n) ELSE NatToString(n \div 10) \o Digit(n % 10)

ChatIdStr(chatId) == IF chatId < 0 THEN "-" \o NatToString(0 - chatId) ELSE NatToString(chatId)

\* a ?? b
Nullish(a, b) == IF IsDef(a) THEN a ELSE b

\* context.ctxPayload?.RawBody ?? context.ctxPayload?.Body ?? ""
RawText(context) ==
  LET p == context.ctxPayload
  IN Val(Nullish(IF IsDef(p) THEN Val(p).RawBody ELSE Undef,
                 Nullish(IF IsDef(p) THEN Val(p).Body ELSE Undef, Some(<< >>))))

\* The processor returned by createTelegramMessageProcessor, for one inbound
\* message, up to its return or to the first wait of sendToTmux.  context is what
\* buildTelegramMessageContext returned.  Messages of one conversation are
\* processed one after the other.
ProcessMessage(context, e) ==
  IF ~IsDef(context)
  THEN /\ ret' = [op |-> "message", context |-> FALSE]
       /\ UNCHANGED <<store, tmuxLive, inflight, detached>>
  ELSE
    LET rawText == RawText(Val(context))
        chatIdStr == ChatIdStr(Val(context).chatId)
        proxied == rawText # << >> /\ chatIdStr # ""
    IN /\ inflight[chatIdStr] = Undef
       /\ \E proxyResult \in {IF proxied THEN TryProxyMessage(chatIdStr, rawText, e)
                               ELSE NotHandled} :
            \E sends \in {~proxyResult.pending /\ proxyResult.handled
                           /\ IsDef(proxyResult.response)} :
              /\ store' = proxyResult.store
              /\ tmuxLive' = proxyResult.live
              /\ inflight' = [inflight EXCEPT ![chatIdStr] = proxyResult.await]
              /\ detached' = IF proxyResult.detach = "none" THEN detached
                             ELSE [detached EXCEPT ![chatIdStr] = proxyResult.detach]
              /\ ret' = [op |-> "message", context |-> TRUE, chat |-> chatIdStr,
                         rawText |-> rawText,
                         before |-> GetSession(chatIdStr),
                         storeBefore |-> store,
                         liveBefore |-> tmuxLive,
                         detachedBefore |-> detached[chatIdStr],
                         proxied |-> proxied,
                         pending |-> proxyResult.pending,
                         handled |-> proxyResult.handled,
                         response |-> proxyResult.response,
                         keys |-> proxyResult.keys,
                         resumeCall |-> proxyResult.resumeCall,
                         proc |-> proxyResult.proc,
                         capture |-> proxyResult.capture,
                         sent |-> IF sends THEN proxyResult.response ELSE Undef,
                         dispatched |-> ~proxyResult.pending /\ ~sends]

\* sendToTmux's wait ends, completed or timed out, with the text extracted from
\* the pane; tryProxyMessage returns and the processor sends the response.
TmuxReply(chatId, wait) ==
  /\ IsDef(inflight[chatId])
  /\ LET call == Val(inflight[chatId])
         result == [success |-> TRUE,
                    output |-> IF wait.timedOut THEN wait.extracted \o TimeoutNote
                               ELSE wait.extracted]
         response == Some([kind |-> "output", label |-> call.label,
                           body |-> SliceTo(result.output, 4000)])
     IN ret' = [op |-> "reply", chat |-> chatId, call |-> call, timedOut |-> wait.timedOut,
                handled |-> TRUE, response |-> response, sent |-> response,
                dispatched |-> FALSE]
  /\ inflight' = [inflight EXCEPT ![chatId] = Undef]
  /\ UNCHANGED <<store, tmuxLive, detached>>

\* a tmux session is started or ends, outside the gateway
TmuxStart(sessionName) ==
  /\ sessionName \notin tmuxLive
  /\ tmuxLive' = tmuxLive \cup {sessionName}
  /\ ret' = [op |-> "tmuxStart"]
  /\ UNCHANGED <<store, inflight, detached>>

TmuxEnd(sessionName) ==
  /\ sessionName \in tmuxLive
  /\ tmuxLive' = tmuxLive \ {sessionName}
  /\ ret' = [op |-> "tmuxEnd"]
  /\ UNCHANGED <<store, inflight, detached>>

----------------------------------------------------------------------------
(* The session router specification *)

TmuxNames == {T_w1, T_w2}

MessageTexts == {T_back, T_BackPadded, T_NAZAD, T_backup, T_Screen, T_ls}

Payloads ==
  {[RawBody |-> Some(t), Body |-> Some(T_hi \o t)] : t \in MessageTexts \cup {<< >>}}
    \cup {[RawBody |-> Undef, Body |-> Some(T_ls)], [RawBody |-> Undef, Body |-> Undef]}

Contexts ==
  {Undef} \cup {Some([chatId |-> c, ctxPayload |-> Some(p)]) : c \in ChatIds, p \in Payloads}
    \cup {Some([chatId |-> c, ctxPayload |-> Undef]) : c \in ChatIds}

ProcOk == [error |-> FALSE, status |-> 0, stdout |-> T_donePadded, stderr |-> << >>]
ProcSpawnError == [error |-> TRUE, status |-> 0, stdout |-> << >>, stderr |-> << >>]
ProcExitStderr == [error |-> FALSE, status |-> 1, stdout |-> << >>, stderr |-> T_boomPadded]
ProcExitSilent == [error |-> FALSE, status |-> 1, stdout |-> << >>, stderr |-> T_blank]

\* the tmux path reads diesBetween and pane, the resume path reads proc: every value
\* of each occurs
Worlds ==
  {[diesBetween |-> FALSE, pane |-> T_pane, proc |-> ProcOk],
   [diesBetween |-> TRUE, pane |-> T_pane, proc |-> ProcSpawnError],
   [diesBetween |-> FALSE, pane |-> T_pane, proc |-> ProcExitStderr],
   [diesBetween |-> TRUE, pane |-> T_pane, proc |-> ProcExitSilent],
   [diesBetween |-> FALSE, pane |-> T_longPane, proc |-> ProcOk]}

Waits == [timedOut : BOOLEAN, extracted : {T_done, NoAnswer, T_longAnswer}]

PAttachTmux ==
  \E c \in ChatKeys, n \in TmuxNames :
    /\ SetTmuxSession(c, n, T_lbl)
    /\ UNCHANGED <<now, enqSeq, cliVars, queueVars, handoffVars>>

PAttachResume ==
  \E c \in ChatKeys :
    /\ SetResumeSession(c, T_uuid, T_cwd, T_lbl)
    /\ UNCHANGED <<now, enqSeq, cliVars, queueVars, handoffVars>>

PMessage ==
  \E context \in Contexts, e \in Worlds :
    /\ ProcessMessage(context, e)
    /\ UNCHANGED <<now, enqSeq, cliVars, queueVars, handoffVars>>

PReply ==
  \E c \in ChatKeys, w \in Waits :
    /\ TmuxReply(c, w)
    /\ UNCHANGED <<now, enqSeq, cliVars, queueVars, handoffVars>>

PTmuxStart ==
  \E n \in TmuxNames :
    /\ TmuxStart(n)
    /\ UNCHANGED <<now, enqSeq, cliVars, queueVars, handoffVars>>

PTmuxEnd ==
  \E n \in TmuxNames :
    /\ TmuxEnd(n)
    /\ UNCHANGED <<now, enqSeq, cliVars, queueVars, handoffVars>>

InitP == InitQueues /\ settingsOf = HandoffSettings /\ InitHandoff /\ InitProxy /\ InitCli

NextProxy == PAttachTmux \/ PAttachResume \/ PMessage \/ PReply \/ PTmuxStart \/ PTmuxEnd

SpecProxy == InitP /\ [][NextProxy]_vars

----------------------------------------------------------------------------
(* The reply wait of sendToTmux: tmux-runner.ts *)

POLL_INTERVAL_MS == 2000
MAX_WAIT_MS == 120000
STABLE_DURATION_MS == 5000
INITIAL_WAIT_MS == 3000

\* s.includes(sub)
Contains(s, sub) ==
  \E i \in 1..(Len(s) - Len(sub) + 1) : SubSeq(s, i, i + Len(sub) - 1) = sub

\* s.startsWith(pre)
StartsWith(s, pre) == Len(s) >= Len(pre) /\ SubSeq(s, 1, Len(pre)) = pre

\* s.split("\n")
RECURSIVE SplitLines(_)
SplitLines(s) ==
  IF \A i \in 1..Len(s) : s[i] # "\n" THEN << s >>
  ELSE LET i == CHOOSE i \in 1..Len(s) : s[i] = "\n" /\ \A j \in 1..(i - 1) : s[j] # "\n"
       IN << SubSeq(s, 1, i - 1) >> \o SplitLines(SubSeq(s, i + 1, Len(s)))

\* lines.join("\n")
RECURSIVE JoinLines(_)
JoinLines(lines) ==
  IF lines = << >> THEN << >>
  ELSE IF Len(lines) = 1 THEN lines[1]
  ELSE lines[1] \o << "\n" >> \o JoinLines(Tail(lines))

\* the prompt glyph of claude, the marker of the permissions line, the
\* character of a separator line, and the markers of work in progress
PromptGlyph == << "prompt_glyph" >>
BypassLine == << "fwd", "fwd", " " >> \o <<"b", "y", "p", "a", "s", "s", " ", "p", "e", "r", "m", "i", "s", "s", "i", "o", "n", "s">>
SeparatorRun == [i \in 1..14 |-> "box"]
DecimalDigits == {"0", "1", "2", "3", "4", "5", "6", "7", "8", "9"}

\* /^\s*[$#]\s*$/.test(tail)
OnlyShellPrompt(tail) ==
  \E i \in 1..Len(tail) :
    /\ tail[i] \in {"$", "#"}
    /\ \A j \in 1..Len(tail) : j # i => tail[j] \in WhiteSpace

\* /\(\d+s ./.test(tail), the dot being the middle dot of the spinner
SpinnerShown(tail) ==
  \E i \in 1..Len(tail), j \in 1..Len(tail) :
    /\ tail[i] = "("
    /\ j > i + 1
    /\ \A k \in (i + 1)..(j - 1) : tail[k] \in DecimalDigits
    /\ j + 2 <= Len(tail)
    /\ SubSeq(tail, j, j + 2) = << "s", " ", "middot" >>

IsResponseCompleteIgnoringBusy(pane) ==
  LET lines == SplitLines(TrimEnd(pane))
      tail == JoinLines(SliceLast(lines, 8))
  IN \/ Contains(tail, PromptGlyph)
     \/ Contains(tail, << ">", " " >>)
     \/ OnlyShellPrompt(tail)

\* isResponseComplete(pane)
IsResponseComplete(pane) ==
  LET lines == SplitLines(TrimEnd(pane))
      tail == JoinLines(SliceLast(lines, 8))
      hasPrompt == \/ Contains(tail, PromptGlyph)
                   \/ Contains(tail, << ">", " " >>)
                   \/ OnlyShellPrompt(tail)
      isBusy == \/ Contains(tail, <<"F", "l", "u", "t", "t", "e", "r", "i", "n", "g">>)
                \/ Contains(tail, <<"T", "h", "i", "n", "k", "i", "n", "g">>)
                \/ Contains(tail, <<"A", "n", "a", "l", "y", "z", "i", "n", "g">>)
                \/ Contains(tail, << "fwd", "fwd" >>)
                \/ Contains(tail, << "bullet", " " >>)
                \/ Contains(tail, << "star", " " >>)
                \/ Contains(tail, << "darr", " " >>)
                \/ SpinnerShown(tail)
  IN hasPrompt /\ ~isBusy

\* /^\s*$/ on one line
BlankLine(l) == \A i \in 1..Len(l) : l[i] \in WhiteSpace \cup {"\t"}

\* newLines.indexOf(l), counted from 0
IndexOf(lines, l) == (CHOOSE i \in 1..Len(lines) : lines[i] = l /\ \A j \in 1..(i - 1) : lines[j] # l) - 1

\* the index, counted from 0, of the first line in which the captures differ
DivergeIdx(beforeLines, afterLines) ==
  LET shorter == IF Len(beforeLines) < Len(afterLines) THEN Len(beforeLines)
                 ELSE Len(afterLines)
      differ == {i \in 1..shorter : beforeLines[i] # afterLines[i]}
  IN IF differ = {} THEN Len(beforeLines)
     ELSE (CHOOSE i \in differ : \A j \in differ : i <= j) - 1

\* the predicate of the filter of extractNewContent
KeptLine(newLines, l) ==
  \/ /\ ~StartsWith(Trim(l), PromptGlyph)
     /\ ~Contains(l, BypassLine)
     /\ ~Contains(l, SeparatorRun)
     /\ ~BlankLine(l)
  \/ /\ IndexOf(newLines, l) > 0
     /\ IndexOf(newLines, l) < Len(newLines) - 3

RECURSIVE FilterLines(_, _)
FilterLines(newLines, rest) ==
  IF rest = << >> THEN << >>
  ELSE (IF KeptLine(newLines, Head(rest)) THEN << Head(rest) >> ELSE << >>)
       \o FilterLines(newLines, Tail(rest))

\* extractNewContent(before, after)
ExtractNewContent(before, after) ==
  LET beforeLines == SplitLines(before)
      afterLines == SplitLines(after)
      divergeIdx == DivergeIdx(beforeLines, afterLines)
      newLines == SubSeq(afterLines, divergeIdx + 1, Len(afterLines))
      filtered == Trim(JoinLines(FilterLines(newLines, newLines)))
  IN IF filtered # << >> THEN filtered ELSE NoAnswer

\* the result of sendToTmux when has-session fails
TmuxNotFound(sessionName) ==
  [success |-> FALSE, output |-> << >>,
   error |-> Some([kind |-> "notFound", tmuxName |-> sessionName])]

SendKeysJoined(sessionName, message) ==
  << [session |-> sessionName, literal |-> Some(message \o << "\n" >>)] >>

\* the two spawnSync calls of send-keys: the text with -l, then Enter
SendKeys(sessionName, message) ==
  << [session |-> sessionName, literal |-> Some(message)],
     [session |-> sessionName, literal |-> Undef] >>

\* sendToTmux(sessionName, message) up to its first await: has-session, the
\* capture before, the two send-keys, and the timer of the initial wait.  pane is
\* what the session shows.
SendToTmuxStart(chatId, sessionName, message, pane) ==
  /\ inflight[chatId] = Undef
  /\ IF ~TmuxHasSession(sessionName, tmuxLive)
     THEN /\ inflight' = inflight
          /\ ret' = [op |-> "sendToTmux", chat |-> chatId, at |-> now,
                     result |-> Some(TmuxNotFound(sessionName)), keys |-> << >>,
                     calls |-> << "has-session" >>]
     ELSE /\ inflight' =
               [inflight EXCEPT ![chatId] =
                  Some([tmuxName |-> sessionName, message |-> message, pc |-> "grace",
                        before |-> CaptureTmuxScreen(sessionName, tmuxLive, pane),
                        sentAt |-> now, wake |-> now + INITIAL_WAIT_MS,
                        startTime |-> 0, lastCapture |-> << >>, stableStart |-> 0])]
          /\ ret' = [op |-> "sendToTmux", chat |-> chatId, at |-> now, result |-> Undef,
                     keys |-> SendKeys(sessionName, message),
                     calls |-> << "has-session", "capture-pane" >>
                                 \o [n \in 1..Len(SendKeys(sessionName, message)) |->
                                       "send-keys"]]
  /\ UNCHANGED <<store, tmuxLive, detached, now>>

LoopTurnTimeoutAsError(call, t, current) ==
  IF t - call.startTime < MAX_WAIT_MS
  THEN IF current = call.lastCapture
       THEN LET stableStart == IF call.stableStart = 0 THEN t ELSE call.stableStart
            IN IF t - stableStart >= STABLE_DURATION_MS /\ IsResponseComplete(current)
               THEN [returns |-> TRUE, polled |-> TRUE, timedOut |-> FALSE, call |-> call,
                     result |-> Some([success |-> TRUE,
                                      output |-> ExtractNewContent(call.before, current),
                                      error |-> Undef])]
               ELSE [returns |-> FALSE, polled |-> TRUE, timedOut |-> FALSE,
                     result |-> Undef,
                     call |-> [call EXCEPT !.stableStart = stableStart,
                                           !.wake = t + POLL_INTERVAL_MS]]
       ELSE [returns |-> FALSE, polled |-> TRUE, timedOut |-> FALSE, result |-> Undef,
             call |-> [call EXCEPT !.stableStart = 0, !.lastCapture = current,
                                   !.wake = t + POLL_INTERVAL_MS]]
  ELSE [returns |-> TRUE, polled |-> FALSE, timedOut |-> TRUE, call |-> call,
        result |-> Some([success |-> FALSE, output |-> << >>,
                         error |-> Some([kind |-> "timeout"])])]

\* one turn of the while loop of sendToTmux at clock reading t, from the test of
\* the loop condition to the next await or to the return; current is what
\* capture-pane prints in this turn
LoopTurn(call, t, current) ==
  IF t - call.startTime < MAX_WAIT_MS
  THEN IF current = call.lastCapture
       THEN LET stableStart == IF call.stableStart = 0 THEN t ELSE call.stableStart
            IN IF t - stableStart >= STABLE_DURATION_MS /\ IsResponseComplete(current)
               THEN [returns |-> TRUE, polled |-> TRUE, timedOut |-> FALSE, call |-> call,
                     result |-> Some([success |-> TRUE,
                                      output |-> ExtractNewContent(call.before, current),
                                      error |-> Undef])]
               ELSE [returns |-> FALSE, polled |-> TRUE, timedOut |-> FALSE,
                     result |-> Undef,
                     call |-> [call EXCEPT !.stableStart = stableStart,
                                           !.wake = t + POLL_INTERVAL_MS]]
       ELSE [returns |-> FALSE, polled |-> TRUE, timedOut |-> FALSE, result |-> Undef,
             call |-> [call EXCEPT !.stableStart = 0, !.lastCapture = current,
                                   !.wake = t + POLL_INTERVAL_MS]]
  ELSE [returns |-> TRUE, polled |-> FALSE, timedOut |-> TRUE, call |-> call,
        result |-> Some([success |-> TRUE,
                         output |-> ExtractNewContent(call.before, current) \o TimeoutNote,
                         error |-> Undef])]

\* the timer that sendToTmux awaits fires, late milliseconds after it was due,
\* and sendToTmux runs to its next await or to its return.  After the initial
\* wait the locals of the loop are initialized and the loop is entered in the
\* same turn.
SendToTmuxTurn(chatId, late, pane) ==
  /\ IsDef(inflight[chatId])
  /\ LET call0 == Val(inflight[chatId])
         t == IF call0.wake + late > now THEN call0.wake + late ELSE now
         call == IF call0.pc = "grace"
                 THEN [call0 EXCEPT !.pc = "poll", !.startTime = t,
                                    !.lastCapture = << >>, !.stableStart = 0]
                 ELSE call0
         current == CaptureTmuxScreen(call.tmuxName, tmuxLive, pane)
     IN \E turn \in {LoopTurn(call, t, current)} :
          /\ now' = t
          /\ inflight' = [inflight EXCEPT ![chatId] =
                            IF turn.returns THEN Undef ELSE Some(turn.call)]
          /\ ret' = [op |-> "sendToTmuxTurn", chat |-> chatId, at |-> t,
                     afterGrace |-> call0.pc = "grace", sentAt |-> call.sentAt,
                     startTime |-> call.startTime, before |-> call.before,
                     lastCapture |-> call.lastCapture, stableStart |-> call.stableStart,
                     current |-> current, polled |-> turn.polled,
                     timedOut |-> turn.timedOut, result |-> turn.result]
  /\ UNCHANGED <<store, tmuxLive, detached>>

----------------------------------------------------------------------------
(* The reply wait specification *)

\* an idle prompt, work in progress, and the answer followed by the idle prompt
PaneIdle == << "prompt_glyph", " " >>
PaneBusy ==
  << "prompt_glyph", " ", "l", "s", "\n", "star", " ", "T", "h", "i", "n", "k", "i", "n", "g" >>
PaneDone == << "prompt_glyph", " ", "l", "s", "\n", "o", "k", "\n", "prompt_glyph", " " >>

TmuxPanes == {PaneIdle, PaneBusy, PaneDone}

Lateness == {l * 1000 : l \in 0..MaxLate}

InitT ==
  /\ queues = [k \in Keys |-> Undef]
  /\ queueOrder = << >>
  /\ pendingAppends = << >>
  /\ inbox = << >>
  /\ now = 1000
  /\ ret = [op |-> "init"]
  /\ enqSeq = 0
  /\ settingsOf = HandoffSettings
  /\ InitHandoff
  /\ store = Undef
  /\ tmuxLive \in {{T_w1}, {}}
  /\ inflight = [c \in ChatKeys |-> Undef]
  /\ detached = [c \in ChatKeys |-> "none"]
  /\ InitCli

\* one call of sendToTmux, the first step
TSend ==
  /\ ret.op = "init"
  /\ SendToTmuxStart("7", T_w1, T_ls, PaneIdle)
  /\ UNCHANGED <<enqSeq, cliVars, queueVars, handoffVars>>

TTurn ==
  \E late \in Lateness, pane \in TmuxPanes :
    /\ SendToTmuxTurn("7", late, pane)
    /\ UNCHANGED <<enqSeq, cliVars, queueVars, handoffVars>>

TEnd ==
  /\ TmuxEnd(T_w1)
  /\ UNCHANGED <<now, enqSeq, cliVars, queueVars, handoffVars>>

NextTmux == TSend \/ TTurn \/ TEnd

SpecTmux == InitT /\ [][NextTmux]_vars

\* a timer that is due fires
SpecTmuxLive == SpecTmux /\ WF_vars(TTurn)

----------------------------------------------------------------------------
(* Claims about the queue *)

\* the four-field routing identity of the data model
SameRoutingIdentity(a, b) ==
  /\ a.originatingChannel = b.originatingChannel
  /\ a.originatingTo = b.originatingTo
  /\ a.originatingAccountId = b.originatingAccountId
  /\ a.originatingThreadId = b.originatingThreadId

HasMessageId(r) == IsDef(r.messageId) /\ Trim(Val(r.messageId)) # << >>

SameMessage(a, b) ==
  /\ HasMessageId(a) /\ HasMessageId(b)
  /\ Trim(Val(a.messageId)) = Trim(Val(b.messageId))
  /\ SameRoutingIdentity(a, b)

\* the Deduplicator's contract, per mode
DuplicateByContract(run, items, mode) ==
  /\ mode # "none"
  /\ IF HasMessageId(run)
     THEN \E i \in 1..Len(items) : SameMessage(items[i], run)
     ELSE /\ mode = "prompt"
          /\ \E i \in 1..Len(items) :
               items[i].prompt = run.prompt /\ SameRoutingIdentity(items[i], run)

ItemsBefore == IF IsDef(ret.before) THEN Val(ret.before).items ELSE << >>

\* C1: an enqueue in mode message-id or prompt of a run with a non-empty trimmed
\* messageId, while the queue holds an item with the same trimmed messageId and
\* the same four routing fields, returns false and leaves the depth unchanged.
C1_DedupIdentity ==
  (/\ ret.op = "enqueue"
   /\ ret.dedupeMode \in {"message-id", "prompt"}
   /\ HasMessageId(ret.run)
   /\ \E i \in 1..Len(ItemsBefore) : SameMessage(ItemsBefore[i], ret.run))
  => /\ ret.result = FALSE
     /\ Depth(ret.key) = Len(ItemsBefore)

\* a retry whose messageId differs from the queued one only by padding was rejected
C1_Witness ==
  /\ ret.op = "enqueue"
  /\ ret.dedupeMode \in {"message-id", "prompt"}
  /\ HasMessageId(ret.run)
  /\ \E i \in 1..Len(ItemsBefore) :
       /\ SameMessage(ItemsBefore[i], ret.run)
       /\ ItemsBefore[i].messageId # ret.run.messageId
  /\ ret.result = FALSE
  /\ Depth(ret.key) = Len(ItemsBefore)

SummaryOf(item) ==
  IF IsDef(item.summaryLine) /\ Trim(Val(item.summaryLine)) # << >>
  THEN Trim(Val(item.summaryLine))
  ELSE Trim(item.prompt)

AtCapacity == IsDef(ret.before) /\ Len(ItemsBefore) = settingsOf[ret.key].cap

\* C3: no queue ever holds more items than its configured capacity; enqueuing a
\* non-duplicate run into a queue that holds exactly its capacity evicts exactly
\* the head, produces the head's summary, and appends the run.
C3_BoundedCapacity ==
  /\ \A k \in Keys : Depth(k) <= settingsOf[k].cap
  /\ (/\ ret.op = "enqueue"
      /\ AtCapacity
      /\ ~DuplicateByContract(ret.run, ItemsBefore, ret.dedupeMode))
     => /\ ret.result
        /\ ret.dropped = << Head(ItemsBefore) >>
        /\ ret.summaries = << SummaryOf(Head(ItemsBefore)) >>
        /\ Val(queues[ret.key]).items = Append(Tail(ItemsBefore), ret.run)

\* a full queue of two evicted its head, whose summary line is blank, so that
\* the summary is the trimmed prompt
C3_Witness ==
  /\ ret.op = "enqueue"
  /\ AtCapacity
  /\ Len(ItemsBefore) = 2
  /\ ret.result
  /\ ret.dropped = << Head(ItemsBefore) >>
  /\ IsDef(Head(ItemsBefore).summaryLine)
  /\ ret.summaries = << Trim(Head(ItemsBefore).prompt) >>
  /\ Head(ItemsBefore).prompt # Trim(Head(ItemsBefore).prompt)

----------------------------------------------------------------------------
(* Claims about the restart handoff *)

HasNonEmptyTo(item) == IsDef(item.originatingTo) /\ Len(Val(item.originatingTo)) > 0

\* the HandoffItem of the data model for a queued run
ProjectionOf(item) ==
  [prompt |-> item.prompt, messageId |-> item.messageId, summaryLine |-> item.summaryLine,
   enqueuedAt |-> item.enqueuedAt, originatingChannel |-> item.originatingChannel,
   originatingTo |-> item.originatingTo, originatingAccountId |-> item.originatingAccountId,
   originatingThreadId |-> item.originatingThreadId,
   sessionKey |-> IF item.run = Undef THEN Undef ELSE Val(item.run).sessionKey]

RECURSIVE ExpectedItems(_)
ExpectedItems(items) ==
  IF items = << >> THEN << >>
  ELSE IF HasNonEmptyTo(Head(items))
       THEN << ProjectionOf(Head(items)) >> \o ExpectedItems(Tail(items))
       ELSE ExpectedItems(Tail(items))

\* the queues a snapshot of the queue store qs (keys in the order given) must hold
RECURSIVE ExpectedQueues(_, _)
ExpectedQueues(qs, order) ==
  IF order = << >> THEN << >>
  ELSE LET key == Head(order)
           items == ExpectedItems(Val(qs[key]).items)
       IN (IF items = << >> THEN << >>
           ELSE << [key |-> key, mode |-> Val(qs[key]).mode, items |-> items] >>)
          \o ExpectedQueues(qs, Tail(order))

LastSave == Val(hist.lastSave)

\* C5: the first loadAndClearRestartHandoff after a saveRestartHandoff, within 5
\* minutes and with the file I/O of both succeeding, returns the snapshot of the
\* queued items that have a non-empty originatingTo, each queue under its key and
\* in queue order, queues without such an item left out; a save with no such
\* item in any queue writes no file.
C5_RoundTrip ==
  /\ (/\ ret.op = "load"
      /\ ret.io = "ok"
      /\ IsDef(hist.lastSave)
      /\ hist.loadsSinceSave = 1
      /\ LastSave.io = "ok"
      /\ now - LastSave.at <= 300000
      /\ ExpectedQueues(LastSave.queues, LastSave.order) # << >>)
     => /\ IsDef(ret.result)
        /\ Val(ret.result).queues = ExpectedQueues(LastSave.queues, LastSave.order)
        /\ Val(ret.result).savedAt = LastSave.at
        /\ Val(ret.result).version = 1
  /\ (ret.op = "save" /\ ExpectedQueues(queues, queueOrder) = << >>)
     => handoffFile = ret.fileBefore

\* a queue of two items, one with and one without originatingTo, came back as
\* a snapshot of one queue with the one item
C5_Witness ==
  /\ ret.op = "load"
  /\ ret.io = "ok"
  /\ IsDef(hist.lastSave)
  /\ hist.loadsSinceSave = 1
  /\ IsDef(ret.result)
  /\ \E k \in Keys :
       /\ IsDef(LastSave.queues[k])
       /\ Len(Val(LastSave.queues[k]).items) = 2
       /\ Len(Val(ret.result).queues) = 1
       /\ Val(ret.result).queues[1].key = k
       /\ Len(Val(ret.result).queues[1].items) = 1

\* C6 as stated: once loadAndClearRestartHandoff has been called on an existing
\* handoff file, every later call with no save in between returns null.
C6_AtMostOnceReplay == (ret.op = "load" /\ ret.sawFileBefore) => ret.result = Undef

\* C6, amended: once a call of loadAndClearRestartHandoff has read and deleted
\* an existing handoff file, every later call with no save in between finds no
\* file and returns null.
C6_ConsumedOnce ==
  (ret.op = "load" /\ ret.consumedBefore) => (ret.fileBefore = Undef /\ ret.result = Undef)

\* a startup after a crash during replay found the file gone
C6_Witness ==
  /\ ret.op = "load"
  /\ ret.consumedBefore
  /\ hist.replayCrashed
  /\ ret.result = Undef

\* C7: what loadAndClearRestartHandoff returns is at most 300000 ms old, and a
\* file that parses and was saved more than 300000 ms ago yields null.
C7_StalenessGuard ==
  ret.op = "load" =>
    /\ IsDef(ret.result) => now - Val(ret.result).savedAt <= 300000
    /\ (/\ IsDef(ret.fileBefore)
        /\ Val(ret.fileBefore).parsable
        /\ now - Val(ret.fileBefore).json.savedAt > 300000)
       => ret.result = Undef

\* a parsable file older than the threshold was read and rejected
C7_Witness ==
  /\ ret.op = "load"
  /\ ret.io = "ok"
  /\ IsDef(ret.fileBefore)
  /\ Val(ret.fileBefore).parsable
  /\ now - Val(ret.fileBefore).json.savedAt > 300000
  /\ ret.result = Undef

----------------------------------------------------------------------------
(* Claims about the session router *)

\* the processor has finished its synchronous part for a message with a context
MessageTurn == ret.op = "message" /\ ret.context

\* ... and tryProxyMessage was called and found an entry for the chat
ProxyCallOnEntry == MessageTurn /\ ret.proxied /\ IsDef(ret.before)

InBackVocabulary(text) == Trim(ToLowerCase(text)) \in BACK_COMMANDS

\* C8: a message of a chat that has an entry in the session store is never passed
\* on to dispatchTelegramMessage.
C8_AttachedNeverDispatched == (MessageTurn /\ IsDef(ret.before)) => ~ret.dispatched

\* C9: on an entry (tmux or resume), a text that lower-cased and trimmed is in the
\* back vocabulary is answered handled: true with a confirmation naming the session,
\* the entry is removed, nothing is sent to the session, and the next
\* tryProxyMessage of the chat returns handled: false.
C9_BackCommand ==
  /\ (ProxyCallOnEntry /\ InBackVocabulary(ret.rawText))
     => /\ ret.handled
        /\ ~ret.pending
        /\ IsDef(ret.response)
        /\ Val(ret.response).kind = "detached"
        /\ Val(ret.response).mode =
             (IF Val(ret.before).mode = "tmux"
              THEN T_tmuxColon \o Val(Val(ret.before).tmuxSession)
              ELSE T_resumeColon \o SliceTo(Val(Val(ret.before).resumeId), 8))
        /\ GetSession(ret.chat) = Undef
        /\ ret.keys = << >>
        /\ ret.resumeCall = Undef
        /\ inflight[ret.chat] = Undef
  /\ (MessageTurn /\ ret.proxied /\ ret.detachedBefore = "back")
     => (~ret.handled /\ ret.response = Undef /\ ~ret.pending)

\* " BaCk " detached a resume session
C9_Witness ==
  /\ ProxyCallOnEntry
  /\ ret.rawText = T_BackPadded
  /\ Val(ret.before).mode = "resume"
  /\ ret.handled
  /\ GetSession(ret.chat) = Undef

NamesDeadTmux ==
  /\ ProxyCallOnEntry
  /\ Val(ret.before).mode = "tmux"
  /\ Truthy(Val(ret.before).tmuxSession)
  /\ Val(Val(ret.before).tmuxSession) \notin ret.liveBefore

\* C10: on a tmux entry whose named session does not exist, a message that is not
\* a back command is answered handled: true with a "not found" response, the entry
\* is removed, no keystrokes are sent, and the next tryProxyMessage of the chat
\* returns handled: false.
C10_DeadTmuxAutoDetach ==
  /\ (NamesDeadTmux /\ ~InBackVocabulary(ret.rawText))
     => /\ ret.handled
        /\ ~ret.pending
        /\ IsDef(ret.response)
        /\ Val(ret.response).kind = "notFound"
        /\ Val(ret.response).tmuxName = Val(Val(ret.before).tmuxSession)
        /\ GetSession(ret.chat) = Undef
        /\ ret.keys = << >>
        /\ inflight[ret.chat] = Undef
  /\ (MessageTurn /\ ret.proxied /\ ret.detachedBefore = "dead")
     => (~ret.handled /\ ret.response = Undef /\ ~ret.pending)

\* a screen command met a session that had ended
C10_Witness ==
  /\ NamesDeadTmux
  /\ ret.rawText = T_Screen
  /\ Val(ret.response).kind = "notFound"
  /\ GetSession(ret.chat) = Undef

\* the call answered that the tmux session does not exist
ReportsSessionMissing ==
  /\ ProxyCallOnEntry
  /\ Val(ret.before).mode = "tmux"
  /\ IsDef(ret.response)
  /\ \/ Val(ret.response).kind = "notFound"
     \/ /\ Val(ret.response).kind = "tmuxError"
        /\ Val(ret.response).error.kind = "notFound"

\* C11: whenever a tmux-mode tryProxyMessage call reports that the tmux session
\* does not exist, the entry of the chat is cleared, also when the session
\* disappears between checkTmuxSession and sendToTmux's own has-session.
C11_MissingSessionClearsEntry == ReportsSessionMissing => GetSession(ret.chat) = Undef

\* the session store as the call found it
EntryBefore(chat) == IF IsDef(ret.storeBefore) THEN Val(ret.storeBefore)[chat] ELSE Undef

\* C12: with no entry for chatId in the session store, tryProxyMessage returns
\* handled: false without a response, leaves the session store as it was, and
\* calls neither tmux nor the resume driver.
C12_NoEntryNotHandled ==
  (MessageTurn /\ ret.proxied /\ EntryBefore(ret.chat) = Undef)
  => /\ ~ret.handled
     /\ ~ret.pending
     /\ ret.response = Undef
     /\ store = ret.storeBefore
     /\ ret.keys = << >>
     /\ ret.resumeCall = Undef
     /\ inflight[ret.chat] = Undef
     /\ tmuxLive = ret.liveBefore

\* a back command of a chat without an entry, while the other chat is attached
C12_Witness ==
  /\ MessageTurn
  /\ ret.proxied
  /\ EntryBefore(ret.chat) = Undef
  /\ \E c \in ChatKeys : IsDef(EntryBefore(c))
  /\ ret.rawText = T_back
  /\ ~ret.handled

----------------------------------------------------------------------------
(* Further claims about the queue *)

EnqueueCall == ret.op = "enqueue"

ItemsAfter == IF IsDef(queues[ret.key]) THEN Val(queues[ret.key]).items ELSE << >>

SpareCapacity == Len(ItemsBefore) < settingsOf[ret.key].cap

\* some queued item carries the run's trimmed messageId under another routing identity
SameIdOtherRouting ==
  \E i \in 1..Len(ItemsBefore) :
    /\ HasMessageId(ItemsBefore[i])
    /\ Trim(Val(ItemsBefore[i].messageId)) = Trim(Val(ret.run.messageId))
    /\ ~SameRoutingIdentity(ItemsBefore[i], ret.run)

\* C13: with dedup on, a run whose messageId is queued only under other routing
\* identities (a difference in one of the four fields suffices) is admitted when
\* there is spare capacity: the call returns true and the run is appended, as the
\* first of the two runs was.
C13_RoutingIsolation ==
  /\ (/\ EnqueueCall
      /\ ret.dedupeMode \in {"message-id", "prompt"}
      /\ HasMessageId(ret.run)
      /\ SameIdOtherRouting
      /\ ~\E i \in 1..Len(ItemsBefore) : SameMessage(ItemsBefore[i], ret.run)
      /\ SpareCapacity)
     => /\ ret.result = TRUE
        /\ ItemsAfter = Append(ItemsBefore, ret.run)
  /\ (EnqueueCall /\ ItemsBefore = << >>)
     => (ret.result = TRUE /\ ItemsAfter = << ret.run >>)

\* the same messageId to another destination: both are queued
C13_Witness ==
  /\ EnqueueCall
  /\ ret.dedupeMode = "message-id"
  /\ Len(ItemsBefore) = 1
  /\ ItemsBefore[1].messageId = ret.run.messageId
  /\ ItemsBefore[1].originatingTo # ret.run.originatingTo
  /\ ret.result = TRUE
  /\ Depth(ret.key) = 2

\* some queued item has the run's prompt and routing identity
SamePromptQueued ==
  \E i \in 1..Len(ItemsBefore) :
    ItemsBefore[i].prompt = ret.run.prompt /\ SameRoutingIdentity(ItemsBefore[i], ret.run)

\* C14: in mode message-id a run whose messageId is missing, empty or blank is
\* never a duplicate: the call returns true and the run is queued, also when an
\* item with the same prompt and routing identity is queued.
C14_NoPromptFallback ==
  (EnqueueCall /\ ret.dedupeMode = "message-id" /\ ~HasMessageId(ret.run))
  => /\ ret.result = TRUE
     /\ ItemsAfter # << >>
     /\ ItemsAfter[Len(ItemsAfter)] = ret.run

\* a run with an empty messageId was queued behind an item with its prompt
C14_Witness ==
  /\ EnqueueCall
  /\ ret.dedupeMode = "message-id"
  /\ ret.run.messageId = Some(<< >>)
  /\ SamePromptQueued
  /\ ret.result = TRUE

\* C15: in mode prompt a run without a non-blank messageId is rejected exactly
\* when an item with the same prompt string and routing identity is queued; a
\* run with a non-blank messageId is rejected exactly when an item with the same
\* trimmed messageId and routing identity is queued.
C15_PromptMode ==
  (EnqueueCall /\ ret.dedupeMode = "prompt")
  => IF HasMessageId(ret.run)
     THEN ret.result = FALSE
            <=> \E i \in 1..Len(ItemsBefore) : SameMessage(ItemsBefore[i], ret.run)
     ELSE ret.result = FALSE <=> SamePromptQueued

\* a run without a messageId was rejected for its prompt
C15_Witness ==
  /\ EnqueueCall
  /\ ret.dedupeMode = "prompt"
  /\ ret.run.messageId = Undef
  /\ SamePromptQueued
  /\ ret.result = FALSE
  /\ ItemsAfter = ItemsBefore

C18_DepthReadOnly ==
  [][ret'.op = "depth"
      => /\ queues' = queues
         /\ queueOrder' = queueOrder
         /\ settingsOf' = settingsOf
         /\ pendingAppends' = pendingAppends
         /\ inbox' = inbox
         /\ ret'.result = IF IsDef(queues[ret'.key])
                          THEN Len(Val(queues[ret'.key]).items) ELSE 0]_vars

\* the probe of a key without a queue answered 0 and the key still has no queue
C18_Witness ==
  /\ ret.op = "depth"
  /\ ret.result = 0
  /\ ret.before = Undef
  /\ queues[ret.key] = Undef
  /\ \E k \in Keys : IsDef(queues[k])

\* the queue of the key of the call made by the step, as the call found it
QueueFound == queues[ret'.key]

ItemsFound == IF IsDef(QueueFound) THEN Val(QueueFound).items ELSE << >>

\* C17: an enqueue that the Deduplicator rejects changes nothing: the queue
\* (items, lastEnqueuedAt, lastRun) is as it was, nothing is dropped or
\* summarized also at capacity, and no inbox block is handed over or written.
C17_RejectionNoSideEffects ==
  [][(/\ ret'.op = "enqueue"
      /\ ~ret'.result
      /\ DuplicateByContract(ret'.run, ItemsFound, ret'.dedupeMode))
     => /\ queues' = queues
        /\ queueOrder' = queueOrder
        /\ pendingAppends' = pendingAppends
        /\ inbox' = inbox
        /\ ret'.dropped = << >>
        /\ ret'.summaries = << >>
        /\ ret'.inboxWrite = Undef]_vars

\* a duplicate was rejected by a draining queue at capacity at a later time than
\* the last admitted enqueue
C17_Witness ==
  /\ EnqueueCall
  /\ ~ret.result
  /\ AtCapacity
  /\ Val(ret.before).draining
  /\ IsDef(ret.run.run)
  /\ now > Val(ret.before).lastEnqueuedAt
  /\ queues[ret.key] = ret.before

WorkspaceOf(ctx) == IF IsDef(ctx) THEN Val(ctx).workspaceDir ELSE Undef

\* the run's own workspace or else the workspace of the lastRun of the queue
ResolvedWorkspace(run, queue) ==
  IF IsDef(WorkspaceOf(run.run)) /\ Val(WorkspaceOf(run.run)) # << >>
  THEN WorkspaceOf(run.run)
  ELSE WorkspaceOf(queue.lastRun)

Resolvable(run, queue) ==
  IsDef(ResolvedWorkspace(run, queue)) /\ Val(ResolvedWorkspace(run, queue)) # << >>

C20_WorkspaceFallback ==
  (/\ EnqueueCall
   /\ ret.result
   /\ IsDef(ret.before)
   /\ Val(ret.before).draining
   /\ ~Truthy(WorkspaceOf(ret.run.run))
   /\ Truthy(WorkspaceOf(Val(ret.before).lastRun)))
  => /\ IsDef(ret.inboxWrite)
     /\ Val(ret.inboxWrite).dir = Val(WorkspaceOf(Val(ret.before).lastRun))

\* C21: the inbox write is not awaited and its failure is swallowed: the enqueue
\* that hands a block to appendFile has returned true with the run queued last
\* while the append is still in flight and the file untouched, and the append
\* settling, with success or failure, changes no queue; a failed one leaves the
\* file as it was.
C21_InboxWriteFireAndForget ==
  [][/\ (ret'.op = "enqueue" /\ IsDef(ret'.inboxWrite))
        => /\ ret'.result = TRUE
           /\ Val(queues'[ret'.key]).items # << >>
           /\ Val(queues'[ret'.key]).items[Len(Val(queues'[ret'.key]).items)] = ret'.run
           /\ pendingAppends' = Append(pendingAppends, Val(ret'.inboxWrite))
           /\ inbox' = inbox
     /\ ret'.op = "appendSettles"
        => /\ queues' = queues
           /\ queueOrder' = queueOrder
           /\ settingsOf' = settingsOf
           /\ (~ret'.ok => inbox' = inbox)]_vars

\* an append failed after its enqueue returned: the run is still queued and the
\* file is empty
C21_Witness ==
  /\ ret.op = "appendSettles"
  /\ ~ret.ok
  /\ inbox = << >>
  /\ pendingAppends = << >>
  /\ \E k \in Keys :
       /\ IsDef(queues[k])
       /\ \E i \in 1..Len(Val(queues[k]).items) :
            /\ Trim(Val(queues[k]).items[i].prompt) = ret.block.prompt
            /\ WorkspaceOf(Val(queues[k]).items[i].run) = Some(ret.block.dir)

\* C22 as stated: a handoff file that exists when loadAndClearRestartHandoff is
\* called does not exist when it returns, and malformed content yields null.
C22_DeleteBeforeParse ==
  (ret.op = "load" /\ IsDef(ret.fileBefore))
  => /\ handoffFile = Undef
     /\ ~Val(ret.fileBefore).parsable => ret.result = Undef

\* C22, amended: when readFileSync and unlinkSync both succeed, a handoff file
\* that exists at the call does not exist when the call returns, whether its
\* content parses, is malformed or is stale; when one of them fails the file is
\* left as it was; malformed content and a failed read yield null in every case.
C22_DeletedWhenReadAndUnlinkSucceed ==
  (ret.op = "load" /\ IsDef(ret.fileBefore))
  => /\ ret.io = "ok" => handoffFile = Undef
     /\ ret.io # "ok" => handoffFile = ret.fileBefore
     /\ (~Val(ret.fileBefore).parsable \/ ret.io = "readFail") => ret.result = Undef

\* a malformed file was read, deleted and answered with null
C22_Witness ==
  /\ ret.op = "load"
  /\ ret.io = "ok"
  /\ IsDef(ret.fileBefore)
  /\ ~Val(ret.fileBefore).parsable
  /\ handoffFile = Undef
  /\ ret.result = Undef
  /\ phase = "running"

\* C24: saveRestartHandoff leaves the in-memory queues as they were whatever the
\* file system does, and when creating the directory or writing fails it
\* returns to its caller, which goes on with the shutdown, with no file written.
C24_SaveFailureSwallowed ==
  [][ret'.op = "save"
     => /\ queues' = queues
        /\ queueOrder' = queueOrder
        /\ settingsOf' = settingsOf
        /\ phase' = "stopping"
        /\ (ret'.io = "writeFail" => handoffFile' = handoffFile)]_vars

\* a save of a queued item with a destination failed: no file, the item still
\* queued
C24_Witness ==
  /\ ret.op = "save"
  /\ ret.io = "writeFail"
  /\ handoffFile = Undef
  /\ IdsToSave # {}
  /\ phase = "stopping"

\* the position after (qi, ii) in the order of the two loops over the snapshot
NextCursor(r) ==
  IF r.ii < Len(r.data.queues[r.qi].items) THEN Some([r EXCEPT !.ii = r.ii + 1])
  ELSE IF r.qi < Len(r.data.queues) THEN Some([r EXCEPT !.qi = r.qi + 1, !.ii = 1])
  ELSE Undef

\* the decimal text of a thread id when there is one
ThreadText(item) ==
  IF item.originatingThreadId = Undef THEN Undef
  ELSE Some(Val(item.originatingThreadId).text)

\* C23: the replay starts at the first item of the first queue of the snapshot;
\* every step submits the item it stands on with deliver true and the channel,
\* destination and account of the item and its thread id as text, and then
\* stands on the next item of the queue, or the first of the next queue, whether
\* the submission succeeded or failed; after the last item the replay is over.
\* So every item is attempted once and no failure stops the replay.
C23_ReplayEveryItem ==
  [][/\ (ret'.op = "load" /\ IsDef(ret'.result) /\ Val(ret'.result).queues # << >>)
        => replay' = Some([data |-> Val(ret'.result), qi |-> 1, ii |-> 1])
     /\ ret'.op = "replayItem"
        => LET r == Val(replay)
               item == r.data.queues[r.qi].items[r.ii]
           IN /\ ret'.item = item
              /\ ret'.key = r.data.queues[r.qi].key
              /\ ret'.params.deliver = TRUE
              /\ ret'.params.message = item.prompt
              /\ ret'.params.channel = item.originatingChannel
              /\ ret'.params.to = item.originatingTo
              /\ ret'.params.accountId = item.originatingAccountId
              /\ ret'.params.threadId = ThreadText(item)
              /\ replay' = NextCursor(r)
              /\ phase' = IF NextCursor(r) = Undef THEN "running" ELSE "replaying"]_vars

\* the submission of the first item of a queue of two failed and the replay
\* stands on the second
C23_Witness ==
  /\ ret.op = "replayItem"
  /\ ~ret.ok
  /\ phase = "replaying"
  /\ IsDef(replay)
  /\ Val(replay).qi = 1
  /\ Val(replay).ii = 2
  /\ Val(replay).data.queues[1].items[1] = ret.item

----------------------------------------------------------------------------
(* Further claims about the session router *)

\* tryProxyMessage reached the resume driver
ResumeTurn ==
  /\ ProxyCallOnEntry
  /\ Val(ret.before).mode = "resume"
  /\ ~InBackVocabulary(ret.rawText)

\* the subprocess did not run to exit code 0: spawnSync reported an error (the
\* spawn failed or the 120 s timeout expired) or the exit code is not 0
ResumeFailed(proc) == proc.error \/ proc.status # 0

\* C25: when the resume subprocess fails, by a spawn error or timeout or by a
\* non-zero exit, tryProxyMessage returns handled: true with an error response,
\* which is sent to the chat, nothing is dispatched, and the entry of the chat
\* is as it was; when it succeeds the response is its output.
C25_ResumeFailureKeepsEntry ==
  ResumeTurn
  => /\ IsDef(ret.proc)
     /\ ret.handled
     /\ ~ret.pending
     /\ IsDef(ret.response)
     /\ ret.sent = ret.response
     /\ ~ret.dispatched
     /\ Val(ret.response).kind
          = (IF ResumeFailed(Val(ret.proc)) THEN "resumeError" ELSE "output")
     /\ ResumeFailed(Val(ret.proc))
        => /\ store = ret.storeBefore
           /\ GetSession(ret.chat) = ret.before
           /\ Val(ret.response).error.kind
                = (IF Val(ret.proc).error THEN "spawn"
                   ELSE IF Trim(Val(ret.proc).stderr) # << >> THEN "stderr"
                   ELSE "exitCode")

\* spawnSync reported an error and the chat is still attached to the session
C25_Witness ==
  /\ ResumeTurn
  /\ Val(ret.proc).error
  /\ Val(ret.response).kind = "resumeError"
  /\ IsDef(GetSession(ret.chat))
  /\ Val(GetSession(ret.chat)).mode = "resume"
  /\ ret.rawText = T_ls

\* C26: a turn of the processor that starts a wait of the proxy path (keystrokes
\* sent to tmux, or the resume subprocess called) ends with the call suspended
\* and its result still to come, so that turns for other conversations can run
\* before the result is there.
C26_WaitsYield ==
  (MessageTurn /\ ret.proxied /\ (ret.keys # << >> \/ IsDef(ret.resumeCall)))
  => /\ ret.pending
     /\ IsDef(inflight[ret.chat])
     /\ ret.response = Undef

\* the values of the last turn of sendToTmux
WaitTurn == ret.op = "sendToTmuxTurn"

WaitCeiling ==
  /\ WaitTurn
     => /\ ret.polled <=> ret.at - ret.startTime < 120000
        /\ ~ret.polled
           => /\ ret.timedOut
              /\ inflight[ret.chat] = Undef
              /\ ret.result
                   = Some([success |-> TRUE, error |-> Undef,
                           output |-> ExtractNewContent(ret.before, ret.current)
                                        \o TimeoutNote])
  /\ \A c \in ChatKeys :
       (IsDef(inflight[c]) /\ Val(inflight[c]).pc = "poll")
       => Val(inflight[c]).wake - Val(inflight[c]).startTime < 120000 + 2000

\* C27: the reply wait ends.  sendToTmux polls only while less than 120 s have
\* passed since the polling began; the next turn is due less than one poll
\* interval after that; the first turn at or after 120 s takes the pane as it
\* is, extracts from it and returns success: true with the timeout annotation
\* appended, no error; and every call that waits returns.
C27_WaitTerminates ==
  /\ []WaitCeiling
  /\ IsDef(inflight["7"]) ~> inflight["7"] = Undef

\* the pane kept showing work in progress for 120 s: what it showed came back
\* with the annotation
C27_Witness ==
  /\ WaitTurn
  /\ ret.timedOut
  /\ ret.at - ret.startTime >= 120000
  /\ ret.current = PaneBusy
  /\ IsDef(ret.result)
  /\ Val(ret.result).success
  /\ Val(ret.result).output # NoAnswer \o TimeoutNote
  /\ SliceLast(Val(ret.result).output, Len(TimeoutNote)) = TimeoutNote

\* C28: the response for a reply wait that timed out ends with the timeout
\* annotation, whatever the length of the extracted output.
C28_TimeoutAlwaysMarked ==
  (ret.op = "reply" /\ ret.timedOut)
  => LET body == Val(ret.response).body
     IN /\ Len(body) >= Len(TimeoutNote)
        /\ SubSeq(body, Len(body) - Len(TimeoutNote) + 1, Len(body)) = TimeoutNote

InScreenVocabulary(text) == Trim(ToLowerCase(text)) \in SCREEN_COMMANDS

\* a message with a show-screen command from a chat attached to a tmux session
\* that is alive when the message arrives
ScreenTurn ==
  /\ ProxyCallOnEntry
  /\ Val(ret.before).mode = "tmux"
  /\ Truthy(Val(ret.before).tmuxSession)
  /\ Val(Val(ret.before).tmuxSession) \in ret.liveBefore
  /\ InScreenVocabulary(ret.rawText)
  /\ ~InBackVocabulary(ret.rawText)

\* C29: a show-screen command to a live tmux session is handled in the same
\* turn; the response is the screen template with the trimmed pane capture, or
\* its last 3000 characters if it is longer; no keystrokes are sent, no call is
\* left in flight, nothing is dispatched and the store is as it was.
C29_ScreenCommand ==
  ScreenTurn
  => /\ ret.handled
     /\ ~ret.pending
     /\ ~ret.dispatched
     /\ ret.keys = << >>
     /\ inflight[ret.chat] = Undef
     /\ store = ret.storeBefore
     /\ GetSession(ret.chat) = ret.before
     /\ IsDef(ret.response)
     /\ ret.sent = ret.response
     /\ Val(ret.response).kind = "screen"
     /\ IsDef(ret.capture)
     /\ LET body == Val(ret.response).body
            shown == Trim(Val(ret.capture))
        IN /\ Len(body) = (IF Len(shown) > 3000 THEN 3000 ELSE Len(shown))
           /\ body = SubSeq(shown, Len(shown) - Len(body) + 1, Len(shown))

\* a pane longer than 3000 characters, asked for with a capitalised command
C29_Witness ==
  /\ ScreenTurn
  /\ ret.rawText = T_Screen
  /\ Len(Trim(Val(ret.capture))) > 3000
  /\ Len(Val(ret.response).body) = 3000
  /\ Val(ret.response).body[1] = "x"
  /\ IsDef(GetSession(ret.chat))

\* the step is a mutation of the store made for chat c: setTmuxSession or
\* setResumeSession for c, or a turn of the processor for a message of c
MutationFor(c) ==
  /\ \/ ret'.op \in {"setTmuxSession", "setResumeSession"}
     \/ ret'.op = "message" /\ ret'.context
  /\ ret'.chat = c

----------------------------------------------------------------------------
(* Claims about the enqueue's bookkeeping and return value *)

QueueAfter == Val(queues[ret.key])

PassesDedup == EnqueueCall /\ ~DuplicateByContract(ret.run, ItemsBefore, ret.dedupeMode)

\* C31: an enqueue that passes dedup leaves lastEnqueuedAt at the time of the
\* call and lastRun at run.run, whether the run is then admitted or refused; a
\* refused run gives false, its items stay as they were, and nothing is dropped
\* or handed to the inbox.
C31_StampedPastDedup ==
  PassesDedup
  => /\ QueueAfter.lastEnqueuedAt = now
     /\ QueueAfter.lastRun = ret.run.run
     /\ ret.refused
        => /\ ret.result = FALSE
           /\ ItemsAfter = ItemsBefore
           /\ ret.dropped = << >>
           /\ ret.inboxWrite = Undef

\* a run with another context was refused at a later time than the last
\* enqueue: both fields moved, the items did not
C31_Witness ==
  /\ PassesDedup
  /\ ret.refused
  /\ ret.result = FALSE
  /\ IsDef(ret.before)
  /\ ItemsBefore # << >>
  /\ Val(ret.before).lastEnqueuedAt < now
  /\ Val(ret.before).lastRun # ret.run.run
  /\ QueueAfter.lastEnqueuedAt = now
  /\ QueueAfter.lastRun = ret.run.run
  /\ ItemsAfter = ItemsBefore

\* the items that were queued before the call and were not evicted by it
KeptItems == SubSeq(ItemsBefore, Len(ret.dropped) + 1, Len(ItemsBefore))

\* C36: the call returns a boolean; true exactly when it appended the run as
\* the last element of items, behind the items it kept; false exactly when the
\* run is a duplicate or the evaluator refused it, and then items is as it was.
C36_ReturnTellsQueued ==
  EnqueueCall
  => /\ ret.result \in BOOLEAN
     /\ ret.result
        <=> ~(DuplicateByContract(ret.run, ItemsBefore, ret.dedupeMode) \/ ret.refused)
     /\ IF ret.result
        THEN /\ ItemsAfter = Append(KeptItems, ret.run)
             /\ ItemsAfter[Len(ItemsAfter)] = ret.run
        ELSE ItemsAfter = ItemsBefore

\* a run that is no duplicate was refused by the evaluator with the queue at
\* capacity: false, and the oldest item is still queued
C36_Witness ==
  /\ EnqueueCall
  /\ ret.refused
  /\ ~DuplicateByContract(ret.run, ItemsBefore, ret.dedupeMode)
  /\ ~SpareCapacity
  /\ ret.result = FALSE
  /\ ItemsAfter = ItemsBefore
  /\ \A i \in 1..Len(ItemsBefore) : ItemsBefore[i] # ret.run

\* the keys whose every enqueue uses dedupe mode message-id or prompt
DedupedKeys == {k \in Keys : \A c \in AdmitCalls : c[1] = k => c[3] # "none"}

ItemsOf(k) == IF IsDef(queues[k]) THEN Val(queues[k]).items ELSE << >>

NoTwoSameMessage(items) ==
  \A i, j \in 1..Len(items) : i # j => ~SameMessage(items[i], items[j])

\* C37: in a queue whose every enqueue uses mode message-id or prompt, no two
\* items have the same non-empty trimmed messageId and the same four routing
\* fields.  Only the items queued at the time of the call count: a run with a
\* messageId that no queued item of its routing identity carries is admitted
\* unless the evaluator refuses it, whatever was queued earlier.
C37_DedupInvariant ==
  /\ \A k \in DedupedKeys : NoTwoSameMessage(ItemsOf(k))
  /\ (/\ EnqueueCall
      /\ ret.key \in DedupedKeys
      /\ HasMessageId(ret.run)
      /\ ~\E i \in 1..Len(ItemsBefore) : SameMessage(ItemsBefore[i], ret.run)
      /\ ~ret.refused)
     => /\ ret.result = TRUE
        /\ ItemsAfter[Len(ItemsAfter)] = ret.run

\* the item with the run's messageId and routing had been evicted: the run was
\* admitted again, behind an item that stayed
C37_Witness ==
  /\ EnqueueCall
  /\ ret.key \in DedupedKeys
  /\ HasMessageId(ret.run)
  /\ ret.result = TRUE
  /\ \E l \in hist.left : l[1] = ret.key /\ SameMessage(l[2], ret.run)
  /\ \A i \in 1..Len(ret.dropped) : ~SameMessage(ret.dropped[i], ret.run)
  /\ Len(ItemsAfter) = 2
  /\ NoTwoSameMessage(ItemsAfter)

----------------------------------------------------------------------------
(* Order across a restart *)

\* the enqueue sequence numbers of the items that name a destination, in the
\* order of the sequence
RECURSIVE DeliverableIds(_)
DeliverableIds(items) ==
  IF items = << >> THEN << >>
  ELSE (IF IsDef(Head(items).originatingTo) /\ Val(Head(items).originatingTo) # << >>
        THEN << Head(items).enqueuedAt >> ELSE << >>) \o DeliverableIds(Tail(items))

IdsOf(items) == [n \in 1..Len(items) |-> items[n].enqueuedAt]

Increasing(ids) == \A n \in 1..(Len(ids) - 1) : ids[n] < ids[n + 1]

\* the file written by this save lists, for every queue it holds, the items
\* that name a destination in their queue order
SnapshotInQueueOrder ==
  (ret'.op = "save" /\ ret'.io = "ok" /\ IsDef(handoffFile') /\ handoffFile' # handoffFile)
  => LET saved == ParseData(Val(handoffFile').json).queues
     IN \A i \in 1..Len(saved) :
          /\ IsDef(queues[saved[i].key])
          /\ IdsOf(saved[i].items) = DeliverableIds(Val(queues[saved[i].key]).items)
          /\ Increasing(IdsOf(saved[i].items))

\* a replay step submits the item at the cursor; the step before it in this
\* replay submitted the item listed just before it in the same queue, or the
\* last item of the queue listed before, or was the load
ReplayInSnapshotOrder ==
  ret'.op = "replayItem"
  => LET r == Val(replay)
         q == r.data.queues[r.qi]
     IN /\ ret'.key = q.key
        /\ ret'.item = q.items[r.ii]
        /\ Increasing(IdsOf(q.items))
        /\ IF r.ii > 1
           THEN /\ ret.op = "replayItem"
                /\ ret.key = q.key
                /\ ret.item = q.items[r.ii - 1]
                /\ ret.item.enqueuedAt < ret'.item.enqueuedAt
           ELSE IF r.qi > 1
           THEN /\ ret.op = "replayItem"
                /\ ret.key = r.data.queues[r.qi - 1].key
                /\ ret.key # q.key
           ELSE ret.op = "load"

\* C35: the snapshot lists the items of each queue in their queue order, which
\* is their enqueue order, and the replay submits the items of a queue one
\* after the other in that order, each in a turn of its own after the turn of
\* the one before: the items of one key are re-submitted in enqueue order.
C35_OrderWithinKey == [][SnapshotInQueueOrder /\ ReplayInSnapshotOrder]_vars

\* two items of one key, both with a destination, were saved and the second
\* was re-submitted after the first
C35_Witness ==
  /\ ret.op = "replayItem"
  /\ ret.item.enqueuedAt = 2
  /\ hist.replayed[1] = 1
  /\ hist.replayed[2] = 1
  /\ IsDef(hist.lastSave)
  /\ IsDef(Val(hist.lastSave).queues[ret.key])
  /\ DeliverableIds(Val(Val(hist.lastSave).queues[ret.key]).items) = << 1, 2 >>

----------------------------------------------------------------------------
(* extractNewContent on its own *)

\* a line with the prompt glyph, a line of text, an empty line, a separator line
ExtractLines == {<< "prompt_glyph", " ", "l", "s" >>, << "o", "k" >>, << >>, SeparatorRun}

\* the captures of up to MaxLines lines
ExtractCaptures == {JoinLines(ls) : ls \in UNION {[1..k -> ExtractLines] : k \in 0..MaxLines}}

ExtractBefores == {<< >>, PaneIdle, << "o", "k" >>}

InitX ==
  /\ InitQueues
  /\ settingsOf = HandoffSettings
  /\ InitHandoff
  /\ InitProxy
  /\ InitCli

XInput ==
  /\ ret.op = "init"
  /\ \E before \in ExtractBefores, after \in ExtractCaptures :
       ret' = [op |-> "captures", before |-> before, after |-> after]
  /\ UNCHANGED <<now, enqSeq, cliVars, queueVars, handoffVars, proxyVars>>

XExtract ==
  /\ ret.op = "captures"
  /\ ret' = [op |-> "extractNewContent", before |-> ret.before, after |-> ret.after,
             output |-> ExtractNewContent(ret.before, ret.after)]
  /\ UNCHANGED <<now, enqSeq, cliVars, queueVars, handoffVars, proxyVars>>

NextExtract == XInput \/ XExtract

SpecExtract == InitX /\ [][NextExtract]_vars

----------------------------------------------------------------------------
(* Claims about the steps of sendToTmux *)

SendTurn == ret.op = "sendToTmux"

\* C32: sendToTmux, when the session exists, captures the pane, then sends the
\* text as literal keystrokes, then sends Enter in a send operation of its own,
\* and then waits 3 s: the call is suspended with the capture taken before the
\* keys, no capture of the loop is taken in that turn, and the first turn of
\* the loop, and so every poll, comes at least 3 s after the keys were sent.
\* When the session does not exist nothing is captured or sent.
C32_StepOrder ==
  /\ (SendTurn /\ ret.result = Undef)
     => /\ ret.calls = << "has-session", "capture-pane", "send-keys", "send-keys" >>
        /\ Len(ret.keys) = 2
        /\ ret.keys[1].literal = Some(Val(inflight[ret.chat]).message)
        /\ ret.keys[2].literal = Undef
        /\ Val(inflight[ret.chat]).pc = "grace"
        /\ Val(inflight[ret.chat]).sentAt = ret.at
        /\ Val(inflight[ret.chat]).wake = ret.at + 3000
  /\ (SendTurn /\ ret.result # Undef)
     => (ret.keys = << >> /\ ret.calls = << "has-session" >> /\ inflight[ret.chat] = Undef)
  /\ WaitTurn
     => /\ ret.at - ret.sentAt >= 3000
        /\ ret.startTime - ret.sentAt >= 3000
        /\ ret.afterGrace <=> ret.at = ret.startTime
  /\ \A c \in ChatKeys :
       (IsDef(inflight[c]) /\ Val(inflight[c]).pc = "grace")
       => /\ ret.op # "sendToTmuxTurn"
          /\ Val(inflight[c]).startTime = 0
          /\ Val(inflight[c]).lastCapture = << >>

\* the first poll, 3 s or more after the keys were sent
C32_Witness ==
  /\ WaitTurn
  /\ ret.afterGrace
  /\ ret.polled
  /\ ret.at - ret.sentAt = 3000
  /\ ret.before = PaneIdle
  /\ ret.current = PaneBusy

\* the markers of work in progress
BusyMarkers ==
  {<<"F", "l", "u", "t", "t", "e", "r", "i", "n", "g">>,
   <<"T", "h", "i", "n", "k", "i", "n", "g">>,
   <<"A", "n", "a", "l", "y", "z", "i", "n", "g">>,
   << "fwd", "fwd" >>, << "bullet", " " >>, << "star", " " >>, << "darr", " " >>}

\* the idle test on the last 8 lines of the pane without its trailing white
\* space: a prompt is shown and no marker of work in progress
IdleTail(pane) ==
  LET tail == JoinLines(SliceLast(SplitLines(TrimEnd(pane)), 8))
  IN /\ \/ Contains(tail, PromptGlyph)
        \/ Contains(tail, << ">", " " >>)
        \/ OnlyShellPrompt(tail)
     /\ \A m \in BusyMarkers : ~Contains(tail, m)
     /\ ~SpinnerShown(tail)

Completed == WaitTurn /\ IsDef(ret.result) /\ ~ret.timedOut

\* C33: a completed result comes from a poll whose capture equals the capture
\* of the poll before, at least 5 s after the stability timer was started, and
\* whose pane passes the idle test.  The timer is started by the first poll
\* that repeats the capture before it, runs while the captures repeat, and is
\* reset by a poll whose capture differs; so no poll of a changing or busy
\* pane completes.
C33_CompleteOnlyWhenStableAndIdle ==
  /\ Completed
     => /\ ret.polled
        /\ ret.current = ret.lastCapture
        /\ ret.stableStart # 0
        /\ ret.at - ret.stableStart >= 5000
        /\ IdleTail(ret.current)
        /\ Val(ret.result).success
        /\ Val(ret.result).output = ExtractNewContent(ret.before, ret.current)
  /\ (WaitTurn /\ ret.polled /\ (ret.current # ret.lastCapture \/ ~IdleTail(ret.current)))
     => ret.result = Undef
  /\ (WaitTurn /\ ret.polled /\ ret.result = Undef)
     => LET c == Val(inflight[ret.chat])
        IN /\ c.lastCapture = ret.current
           /\ c.stableStart = (IF ret.current # ret.lastCapture THEN 0
                               ELSE IF ret.stableStart = 0 THEN ret.at
                               ELSE ret.stableStart)
           /\ c.wake = ret.at + 2000

\* the answer and the idle prompt had been on the pane unchanged for 5 s
C33_Witness ==
  /\ Completed
  /\ ret.current = PaneDone
  /\ ret.at - ret.stableStart = 5000
  /\ Val(ret.result).output = T_done
  /\ inflight[ret.chat] = Undef

\* a pane that shows work in progress, unchanged for more than 5 s, did not
\* complete
C33_WitnessBusy ==
  /\ WaitTurn
  /\ ret.polled
  /\ ret.current = PaneBusy
  /\ ret.current = ret.lastCapture
  /\ ret.stableStart # 0
  /\ ret.at - ret.stableStart >= 5000
  /\ ret.result = Undef

\* the lines of the text that extractNewContent returned
OutputLines == SplitLines(ret.output)

\* C34: the text that extractNewContent returns has no line that starts with
\* the prompt glyph and no separator line, is trimmed and is not empty.
C34_ExtractFiltersService ==
  ret.op = "extractNewContent"
  => /\ ret.output # << >>
     /\ Trim(ret.output) = ret.output
     /\ \A n \in 1..Len(OutputLines) :
          /\ ~StartsWith(Trim(OutputLines[n]), PromptGlyph)
          /\ ~Contains(OutputLines[n], SeparatorRun)

----------------------------------------------------------------------------
(* Isolation of conversations in the session router *)

\* the entry of the chat in the store as the turn found it
OwnEntryBefore ==
  IF IsDef(ret.storeBefore) THEN Val(ret.storeBefore)[ret.chat] ELSE Undef

\* the sessions bound to a chat in a store
BoundTo(st, c) ==
  IF ~IsDef(st) \/ ~IsDef(Val(st)[c]) THEN {}
  ELSE {Val(Val(st)[c]).tmuxSession, Val(Val(st)[c]).resumeId} \ {Undef}

\* C38: whatever a turn of the processor sends for a chat, keystrokes to a tmux
\* session or the message to claude --resume, goes to the session named in the
\* entry that the store held for that same chat when the turn began, and is the
\* text of the message; a chat without an entry sends nothing.  So a text never
\* reaches a session that is bound to other chats only.
C38_ProxyIsolation ==
  (MessageTurn /\ ret.proxied)
  => /\ \A n \in 1..Len(ret.keys) :
          /\ IsDef(OwnEntryBefore)
          /\ Val(OwnEntryBefore).mode = "tmux"
          /\ Some(ret.keys[n].session) = Val(OwnEntryBefore).tmuxSession
          /\ Some(ret.keys[n].session) \in BoundTo(ret.storeBefore, ret.chat)
          /\ ret.keys[n].literal \in {Some(ret.rawText), Undef}
     /\ IsDef(ret.resumeCall)
        => /\ IsDef(OwnEntryBefore)
           /\ Val(OwnEntryBefore).mode = "resume"
           /\ Some(Val(ret.resumeCall).sessionId) = Val(OwnEntryBefore).resumeId
           /\ Some(Val(ret.resumeCall).cwd) = Val(OwnEntryBefore).cwd
           /\ Val(ret.resumeCall).message = ret.rawText
     /\ IsDef(inflight[ret.chat])
        => Some(Val(inflight[ret.chat]).tmuxName) \in BoundTo(ret.storeBefore, ret.chat)

\* two chats bound to different tmux sessions: the text of one went to its own
\* session while the call of the other was waiting on the other session
C38_Witness ==
  /\ MessageTurn
  /\ ret.proxied
  /\ ret.keys # << >>
  /\ ret.rawText = T_ls
  /\ \E c \in ChatKeys \ {ret.chat} :
       /\ IsDef(inflight[c])
       /\ BoundTo(store, c) # {}
       /\ BoundTo(store, c) \cap BoundTo(store, ret.chat) = {}
       /\ Val(inflight[c]).tmuxName # ret.keys[1].session

----------------------------------------------------------------------------
(* The registry of active CLI runs *)

\* ACTIVE_CLI_RUNS.set(sessionId, { cancel, pid, startedAtMs })
Registered(sessionId, cancel) ==
  [ACTIVE_CLI_RUNS EXCEPT ![sessionId] = Some([cancel |-> cancel, startedAtMs |-> now])]

\* the cancel callback of a run is named by the run
RegisterActiveCliRun(sessionId, cancel) ==
  /\ ACTIVE_CLI_RUNS' = Registered(sessionId, cancel)
  /\ ret' = [op |-> "registerActiveCliRun", sessionId |-> sessionId, cancel |-> cancel]

UnregisterActiveCliRun(sessionId) ==
  /\ ACTIVE_CLI_RUNS' = [ACTIVE_CLI_RUNS EXCEPT ![sessionId] = Undef]
  /\ ret' = [op |-> "unregisterActiveCliRun", sessionId |-> sessionId]

\* what cancelActiveCliRun returns and the callbacks it invokes
CancelOutcome(sessionId) ==
  LET handle == ACTIVE_CLI_RUNS[sessionId]
  IN  IF handle = Undef THEN [returned |-> FALSE, invoked |-> {}]
      ELSE [returned |-> TRUE, invoked |-> {Val(handle).cancel}]

CancelActiveCliRun(sessionId) ==
  /\ ret' = [op |-> "cancelActiveCliRun", sessionId |-> sessionId,
             returned |-> CancelOutcome(sessionId).returned,
             invoked |-> CancelOutcome(sessionId).invoked]
  /\ UNCHANGED ACTIVE_CLI_RUNS

HasActiveCliRun(sessionId) == IsDef(ACTIVE_CLI_RUNS[sessionId])

\* a run starts and registers its cancel callback under its sessionId
CRegister ==
  \E r \in CliRunIds :
    /\ cliRuns[r] = "idle"
    /\ RegisterActiveCliRun(SessionOf(r), r)
    /\ cliRuns' = [cliRuns EXCEPT ![r] = "registered"]
    /\ UNCHANGED <<now, enqSeq, files, queueVars, handoffVars, proxyVars>>

\* a run ends and unregisters its sessionId
CUnregister ==
  \E r \in CliRunIds :
    /\ cliRuns[r] = "registered"
    /\ UnregisterActiveCliRun(SessionOf(r))
    /\ cliRuns' = [cliRuns EXCEPT ![r] = "done"]
    /\ UNCHANGED <<now, enqSeq, files, queueVars, handoffVars, proxyVars>>

\* somebody asks to cancel the run of a session
CCancel ==
  \E s \in CliSessionIds :
    /\ CancelActiveCliRun(s)
    /\ UNCHANGED <<now, enqSeq, cliRuns, files, queueVars, handoffVars, proxyVars>>

\* the clock moves on
CTick ==
  /\ now < MaxTicksQ
  /\ now' = now + 1
  /\ ret' = [op |-> "tick"]
  /\ UNCHANGED <<enqSeq, cliVars, queueVars, handoffVars, proxyVars>>

NextCli == CRegister \/ CUnregister \/ CCancel \/ CTick

SpecCli == Init /\ [][NextCli]_vars

\* the runs of a session that have registered and not yet unregistered
RegisteredRuns(sessionId) ==
  {r \in CliRunIds : SessionOf(r) = sessionId /\ cliRuns[r] = "registered"}

CancelCall == ret.op = "cancelActiveCliRun"

\* C39: while a run is between its registerActiveCliRun and its own
\* unregisterActiveCliRun, cancelActiveCliRun of its sessionId returns true and
\* invokes the cancel callback of that run, also when two runs of one sessionId
\* overlap; cancelActiveCliRun returns false and invokes nothing exactly when no
\* run is registered for the sessionId.
C39_CancelReachesRegisteredRun ==
  CancelCall =>
    /\ \A r \in RegisteredRuns(ret.sessionId) : ret.returned /\ r \in ret.invoked
    /\ (~ret.returned /\ ret.invoked = {}) <=> RegisteredRuns(ret.sessionId) = {}

----------------------------------------------------------------------------
(* The secrets migration: runSecretsMigration and its backup *)

BACKUP_RETENTION == 20

\* a config file that is absent reads as the empty config
ConfigOf(at) ==
  IF IsDef(at["config"]) THEN Val(at["config"]) ELSE [plain |-> FALSE, source |-> FALSE]

\* decryptSopsJson: a secrets file that is absent reads as the empty payload
DecryptSopsJson(at) == IF IsDef(at["secrets"]) THEN Val(at["secrets"]) ELSE {}

\* buildMigrationPlan: what would change, from what the files hold now
BuildMigrationPlan(at, scrubEnv) ==
  LET config == ConfigOf(at)
      previousPayload == DecryptSopsJson(at)
      authPlain == IsDef(at["auth"]) /\ Val(at["auth"]).plain
      migratedValues == (IF config.plain THEN {"config"} ELSE {})
                          \cup (IF authPlain THEN {"auth"} ELSE {})
      nextPayload == previousPayload \cup migratedValues
      nextConfig == [plain |-> FALSE, source |-> config.source \/ migratedValues # {}]
      configChanged == nextConfig # config
      payloadChanged == nextPayload # previousPayload
      authStoreChanges ==
        IF authPlain THEN <<[path |-> "auth", content |-> [plain |-> FALSE]]>> ELSE << >>
      envChange ==
        IF scrubEnv /\ migratedValues # {} /\ IsDef(at["env"]) /\ Val(at["env"]).matching
        THEN <<[path |-> "env", content |-> [matching |-> FALSE]]>> ELSE << >>
  IN  [changed |-> configChanged \/ payloadChanged \/ authStoreChanges # << >>
                     \/ envChange # << >>,
       backupTargets |->
         (IF configChanged THEN <<"config">> ELSE << >>)
           \o (IF payloadChanged THEN <<"secrets">> ELSE << >>)
           \o [i \in 1..Len(authStoreChanges) |-> authStoreChanges[i].path]
           \o [i \in 1..Len(envChange) |-> envChange[i].path],
       \* the write steps in the order runSecretsMigration takes them
       steps |->
         (IF payloadChanged THEN <<[path |-> "secrets", content |-> nextPayload]>> ELSE << >>)
           \o (IF configChanged THEN <<[path |-> "config", content |-> nextConfig]>>
               ELSE << >>)
           \o authStoreChanges
           \o envChange]

\* createBackupManifest: one entry per target, with a copy of a target that exists
CreateBackupManifest(at, targets) ==
  [entries |-> [i \in 1..Len(targets) |->
     [path |-> targets[i], existed |-> IsDef(at[targets[i]]), backup |-> at[targets[i]]]]]

EntryOf(manifest, p) ==
  CHOOSE i \in 1..Len(manifest.entries) : manifest.entries[i].path = p

InManifest(manifest, p) == \E i \in 1..Len(manifest.entries) : manifest.entries[i].path = p

\* a restore that copies the backups and leaves alone a target that had not existed
RestoreFromManifestKeepingCreated(manifest, at) ==
  [p \in SecretsTargets |->
     IF InManifest(manifest, p) /\ manifest.entries[EntryOf(manifest, p)].existed
     THEN manifest.entries[EntryOf(manifest, p)].backup
     ELSE at[p]]

\* restoreFromManifest: a target that had not existed is removed, any other is
\* copied back from its backup
RestoreFromManifest(manifest, at) ==
  [p \in SecretsTargets |->
     IF ~InManifest(manifest, p) THEN at[p]
     ELSE IF ~manifest.entries[EntryOf(manifest, p)].existed THEN Undef
     ELSE manifest.entries[EntryOf(manifest, p)].backup]

\* pruneOldBackups: the newest BACKUP_RETENTION backups stay
PruneOldBackups(backups) ==
  IF Len(backups) <= BACKUP_RETENTION THEN backups
  ELSE SubSeq(backups, Len(backups) - BACKUP_RETENTION + 1, Len(backups))

\* the first n write steps done
Written(at, steps, n) ==
  [p \in SecretsTargets |->
     IF \E i \in 1..n : steps[i].path = p
     THEN Some(steps[CHOOSE i \in 1..n : steps[i].path = p].content)
     ELSE at[p]]

\* what a write step that fails leaves of its file: nothing new, a torn file,
\* or the whole new content (the failure came after the write, in chmod)
Leaves == {"untouched", "torn", "written"}

FailedWrite(at, step, left) ==
  IF left = "untouched" THEN at
  ELSE [at EXCEPT ![step.path] = IF left = "torn" THEN Some("torn") ELSE Some(step.content)]

\* runSecretsMigration; failAt is the write step that throws (0: none does)
RunSecretsMigration(write, scrubEnv, failAt, left) ==
  LET plan == BuildMigrationPlan(files.at, scrubEnv)
      backup == CreateBackupManifest(files.at, plan.backupTargets)
      failed == FailedWrite(Written(files.at, plan.steps, failAt - 1),
                            plan.steps[failAt], left)
      base == [op |-> "runSecretsMigration", write |-> write, scrubEnv |-> scrubEnv,
               changed |-> plan.changed, targets |-> plan.backupTargets, before |-> files]
  IN  IF ~write
      THEN /\ failAt = 0
           /\ files' = files
           /\ ret' = base @@ [mode |-> "dry-run", threw |-> FALSE, touched |-> << >>]
      ELSE IF ~plan.changed
      THEN /\ failAt = 0
           /\ files' = files
           /\ ret' = base @@ [mode |-> "write", threw |-> FALSE, touched |-> << >>]
      ELSE /\ Len(files.backups) < MaxBackups
           /\ failAt \in 0..Len(plan.steps)
           /\ IF failAt = 0
              THEN /\ files' = [at |-> Written(files.at, plan.steps, Len(plan.steps)),
                                backups |-> PruneOldBackups(Append(files.backups, backup))]
                   /\ ret' = base @@ [mode |-> "write", threw |-> FALSE,
                                      touched |-> [i \in 1..Len(plan.steps) |->
                                                     plan.steps[i].path]]
              ELSE /\ files' = [at |-> RestoreFromManifest(backup, failed),
                                backups |-> Append(files.backups, backup)]
                   /\ ret' = base @@ [mode |-> "write", threw |-> TRUE,
                                      touched |-> [i \in 1..failAt |->
                                                     plan.steps[i].path],
                                      left |-> left]

\* rollbackSecretsMigration of a backup that exists
RollbackSecretsMigration(backupId) ==
  /\ files' = [files EXCEPT !.at = RestoreFromManifest(files.backups[backupId], files.at)]
  /\ ret' = [op |-> "rollbackSecretsMigration", backupId |-> backupId]

\* the files before any migration: each present or absent, with or without
\* plaintext secrets
SecretsFilesAtStart ==
  {[config |-> c, secrets |-> s, auth |-> a, env |-> e] :
     c \in {Undef} \cup {Some([plain |-> pl, source |-> so]) : pl, so \in BOOLEAN},
     s \in {Undef, Some({}), Some({"config"})},
     a \in {Undef} \cup {Some([plain |-> pl]) : pl \in BOOLEAN},
     e \in {Undef} \cup {Some([matching |-> m]) : m \in BOOLEAN}}

InitS ==
  /\ InitQueues
  /\ settingsOf = HandoffSettings
  /\ InitHandoff
  /\ InitProxy
  /\ ACTIVE_CLI_RUNS = [s \in CliSessionIds |-> Undef]
  /\ cliRuns = [r \in CliRunIds |-> "idle"]
  /\ \E at \in SecretsFilesAtStart : files = [at |-> at, backups |-> << >>]

\* openclaw secrets migrate [--write] [--no-scrub-env]
SMigrate ==
  \E write \in BOOLEAN, scrubEnv \in BOOLEAN, failAt \in 0..4, left \in Leaves :
    /\ RunSecretsMigration(write, scrubEnv, failAt, left)
    /\ UNCHANGED <<now, enqSeq, ACTIVE_CLI_RUNS, cliRuns, queueVars, handoffVars, proxyVars>>

\* openclaw secrets migrate --rollback <backup-id>
SRollback ==
  \E backupId \in 1..Len(files.backups) :
    /\ RollbackSecretsMigration(backupId)
    /\ UNCHANGED <<now, enqSeq, ACTIVE_CLI_RUNS, cliRuns, queueVars, handoffVars, proxyVars>>

NextSecrets == SMigrate \/ SRollback

SpecSecrets == InitS /\ [][NextSecrets]_vars

MigrationCall == ret.op = "runSecretsMigration"

C40_WitnessDryRun == MigrationCall /\ ~ret.write /\ ret.changed

=============================================================================
